---- MODULE Spec2Model ----
(***************************************************************************)
(* Model of the liquidity-pool sale contract                               *)
(* (inference-chain/contracts/liquidity-pool): the tier math and the       *)
(* multi-tier purchase solver of state.rs, and the handlers of             *)
(* contract.rs that read and write the three persisted records.            *)
(*                                                                         *)
(* Numbers.  TLC's integers are 32 bits wide, so the 128-bit amounts of    *)
(* the contract are modelled at a reduced width: Uint128 has UintBits      *)
(* bits, the u32 tier index has TierBits bits and the 9-decimal token      *)
(* scale 10^9 is TokenScale.  Every checked operation is translated with   *)
(* its overflow test against UINT_MAX, and no product is ever formed       *)
(* before that test.  The divisors 1000 (multiplier), 10000 (basis         *)
(* points) and 86400 (seconds per day) and the ceiling of 50 iterations    *)
(* are the program's own.                                                  *)
(***************************************************************************)
EXTENDS Integers, Sequences, FiniteSets, TLC

\* ---------------------------------------------------------------- bounds
\* Width of Uint128 in the model.
UintBits == 20
\* Width of the u32 tier index in the model.
TierBits == 6
\* The token scale (10^9 in the source) in the model.
TokenScale == 100
\* Block time stops advancing after this many accounting days.
MaxDays == 1
\* Deposits stop once the contract has been funded with this many tokens.
MaxFunding == 60
\* The factor 1_000_000 of micro-USD stands to TokenScale as 10^6 to 10^9
\* in order only: it is the smaller of the two.
UsdScale == 10
\* The largest payment tried when looking for one that a state accepts.
MaxProbe == 12

\* ------------------------------------------------------ program constants
MULTIPLIER_DENOMINATOR == 1000
BP_DENOMINATOR == 10000
SECONDS_PER_DAY == 86400
MAX_TIER_ITERATIONS == 50
DEFAULT_DAILY_LIMIT_BP == 100

UINT_MAX == 2^UintBits - 1
TIER_MODULUS == 2^TierBits

\* ------------------------------------------------- checked Uint128 arithmetic
\* The Err of a checked operation.
Err == -1

checked_mul(a, b) ==
    IF a = 0 \/ b = 0 THEN 0
    ELSE IF a > UINT_MAX \div b THEN Err
    ELSE a * b

\* checked_div, had the quotient been rounded up.
checked_div_rounding_up(a, b) == IF b = 0 THEN Err ELSE (a + b - 1) \div b

checked_div(a, b) == IF b = 0 THEN Err ELSE a \div b

checked_rem(a, b) == IF b = 0 THEN Err ELSE a % b

checked_add(a, b) == IF a > UINT_MAX - b THEN Err ELSE a + b

checked_sub(a, b) == IF b > a THEN Err ELSE a - b

\* Result::unwrap_or(d) and unwrap_or_default() (d = 0).
unwrap_or(r, d) == IF r = Err THEN d ELSE r

\* ------------------------------------------------------------- tier math
\* state.rs calculate_current_tier: floor division, then the cast to u32.
calculate_current_tier(tokens_sold, tokens_per_tier) ==
    IF tokens_per_tier = 0 THEN 0
    ELSE (tokens_sold \div tokens_per_tier) % TIER_MODULUS

\* One pass of the loop body of calculate_current_price:
\* price.checked_mul(m).unwrap_or(price).checked_div(1000).unwrap_or(price).
price_step(price, tier_multiplier) ==
    unwrap_or(
        checked_div(unwrap_or(checked_mul(price, tier_multiplier), price),
                    MULTIPLIER_DENOMINATOR),
        price)

\* n consecutive passes of the loop: the first half of them, then the rest
\* from the price they leave (the singleton set makes TLC compute that price
\* once, before it goes on).
RECURSIVE price_loop(_, _, _)
price_loop(price, n, tier_multiplier) ==
    IF n = 0 THEN price
    ELSE IF n = 1 THEN price_step(price, tier_multiplier)
    ELSE CHOOSE p \in { price_loop(half, n - (n \div 2), tier_multiplier) :
                           half \in { price_loop(price, n \div 2, tier_multiplier) } } :
             TRUE

calculate_current_price(base_price, current_tier, tier_multiplier) ==
    price_loop(base_price, current_tier, tier_multiplier)

\* Some checked_mul of the loop of calculate_current_price fails.
price_overflows(base_price, current_tier, tier_multiplier) ==
    \E k \in 0..(current_tier - 1) :
        checked_mul(price_loop(base_price, k, tier_multiplier), tier_multiplier) = Err

\* calculate_tokens_for_usd, had the division rounded up.
calculate_tokens_for_usd_rounded_up(usd_amount, price_per_token) ==
    IF price_per_token = 0 THEN 0
    ELSE unwrap_or(
             checked_div(unwrap_or(checked_add(
                                       unwrap_or(checked_mul(usd_amount, TokenScale), 0),
                                       price_per_token - 1), 0),
                         price_per_token),
             0)

\* calculate_tokens_for_usd, had the payment not been scaled up to the token
\* decimals.
calculate_tokens_for_usd_unscaled(usd_amount, price_per_token) ==
    IF price_per_token = 0 THEN 0
    ELSE unwrap_or(checked_div(usd_amount, price_per_token), 0)

calculate_tokens_for_usd(usd_amount, price_per_token) ==
    IF price_per_token = 0 THEN 0
    ELSE unwrap_or(
             checked_div(unwrap_or(checked_mul(usd_amount, TokenScale), 0),
                         price_per_token),
             0)

\* ------------------------------------------------------ multi-tier solver
\* The loop state of calculate_multi_tier_purchase before its first pass.
solver_start(usd_amount, current_tokens_sold, pc) ==
    [ remaining_usd |-> usd_amount,
      total_tokens |-> 0,
      current_tokens_sold_so_far |-> current_tokens_sold,
      actual_usd_spent |-> 0,
      end_tier |-> calculate_current_tier(current_tokens_sold, pc.tokens_per_tier),
      iterations |-> 0,
      stopped |-> FALSE,
      overflowed |-> FALSE,
      fell_back |-> FALSE,
      passes |-> << >> ]

\* usd_for_remaining_tier, had it taken the whole tier as left to sell.
usd_for_remaining_tier_of_whole_tier(sold, pc, current_price) ==
    unwrap_or(
        checked_div(unwrap_or(checked_mul(pc.tokens_per_tier, current_price), 0),
                    TokenScale),
        0)

\* USD needed to buy all that is left of the tier holding `sold`.
usd_for_remaining_tier(sold, pc, current_price) ==
    LET tokens_already_sold_in_tier == unwrap_or(checked_rem(sold, pc.tokens_per_tier), 0)
        tokens_left_in_tier ==
            unwrap_or(checked_sub(pc.tokens_per_tier, tokens_already_sold_in_tier), 0)
    IN  unwrap_or(
            checked_div(unwrap_or(checked_mul(tokens_left_in_tier, current_price), 0),
                        TokenScale),
            0)

\* Some checked operation of the pass from st other than the multiplication
\* of calculate_current_price fails, and the pass goes on with its fallback:
\* the cost of the rest of the tier, the conversion of the portion to
\* tokens, or one of the running sums.
pass_falls_back(st, pc) ==
    LET sold == st.current_tokens_sold_so_far
        current_tier == calculate_current_tier(sold, pc.tokens_per_tier)
        current_price ==
            calculate_current_price(pc.base_price_usd, current_tier, pc.tier_multiplier)
        tokens_left_in_tier == pc.tokens_per_tier - (sold % pc.tokens_per_tier)
        for_remaining == usd_for_remaining_tier(sold, pc, current_price)
        spend == IF st.remaining_usd <= for_remaining THEN st.remaining_usd
                 ELSE for_remaining
        tokens_in_tier == calculate_tokens_for_usd(spend, current_price)
    IN  \/ checked_mul(tokens_left_in_tier, current_price) = Err
        \/ checked_mul(spend, TokenScale) = Err
        \/ checked_add(st.total_tokens, tokens_in_tier) = Err
        \/ checked_add(st.actual_usd_spent, spend) = Err
        \/ checked_add(sold, tokens_in_tier) = Err

\* Some checked operation of the pass from st fails (and takes its fallback).
pass_overflows(st, pc) ==
    LET sold == st.current_tokens_sold_so_far
        current_tier == calculate_current_tier(sold, pc.tokens_per_tier)
        current_price ==
            calculate_current_price(pc.base_price_usd, current_tier, pc.tier_multiplier)
        tokens_left_in_tier == pc.tokens_per_tier - (sold % pc.tokens_per_tier)
        for_remaining == usd_for_remaining_tier(sold, pc, current_price)
        spend == IF st.remaining_usd <= for_remaining THEN st.remaining_usd
                 ELSE for_remaining
        tokens_in_tier == calculate_tokens_for_usd(spend, current_price)
    IN  \/ price_overflows(pc.base_price_usd, current_tier, pc.tier_multiplier)
        \/ checked_mul(tokens_left_in_tier, current_price) = Err
        \/ checked_mul(spend, TokenScale) = Err
        \/ checked_add(st.total_tokens, tokens_in_tier) = Err
        \/ checked_add(st.actual_usd_spent, spend) = Err
        \/ checked_add(sold, tokens_in_tier) = Err

\* usd_to_spend_in_tier, had the solver always bought the rest of the tier.
usd_to_spend_in_tier_whole(remaining_usd, usd_for_remaining) == usd_for_remaining

usd_to_spend_in_tier(remaining_usd, usd_for_remaining) ==
    IF remaining_usd <= usd_for_remaining THEN remaining_usd ELSE usd_for_remaining

\* One pass of the for loop, from the loop state st.  A break sets stopped,
\* and a pass from a stopped state does nothing.
solver_pass(st, pc) ==
    LET current_tier ==
            calculate_current_tier(st.current_tokens_sold_so_far, pc.tokens_per_tier)
        current_price ==
            calculate_current_price(pc.base_price_usd, current_tier, pc.tier_multiplier)
        for_remaining ==
            usd_for_remaining_tier(st.current_tokens_sold_so_far, pc, current_price)
        spend == usd_to_spend_in_tier(st.remaining_usd, for_remaining)
        tokens_in_tier == calculate_tokens_for_usd(spend, current_price)
        sold_after ==
            unwrap_or(checked_add(st.current_tokens_sold_so_far, tokens_in_tier),
                      st.current_tokens_sold_so_far)
    IN  IF st.stopped THEN st
        ELSE IF st.remaining_usd = 0
        THEN [st EXCEPT !.stopped = TRUE]
        ELSE IF current_price = 0 \/ spend = 0
        THEN [st EXCEPT !.stopped = TRUE,
                        !.overflowed = st.overflowed \/ pass_overflows(st, pc),
                        !.fell_back = st.fell_back \/ pass_falls_back(st, pc)]
        ELSE [ remaining_usd |-> unwrap_or(checked_sub(st.remaining_usd, spend), 0),
               total_tokens |->
                   unwrap_or(checked_add(st.total_tokens, tokens_in_tier),
                             st.total_tokens),
               current_tokens_sold_so_far |-> sold_after,
               actual_usd_spent |->
                   unwrap_or(checked_add(st.actual_usd_spent, spend),
                             st.actual_usd_spent),
               end_tier |-> calculate_current_tier(sold_after, pc.tokens_per_tier),
               iterations |-> st.iterations + 1,
               stopped |-> FALSE,
               overflowed |-> st.overflowed \/ pass_overflows(st, pc),
               fell_back |-> st.fell_back \/ pass_falls_back(st, pc),
               passes |-> Append(st.passes,
                            [ tier |-> current_tier,
                              price |-> current_price,
                              sold_before |-> st.current_tokens_sold_so_far,
                              usd |-> spend,
                              tokens |-> tokens_in_tier ]) ]

\* n consecutive passes of the loop: the first half of them, then the rest
\* from the loop state they leave.
RECURSIVE solver_loop(_, _, _)
solver_loop(st, pc, n) ==
    IF n = 0 THEN st
    ELSE IF n = 1 THEN CHOOSE r \in { solver_pass(s, pc) : s \in {st} } : TRUE
    ELSE CHOOSE r \in { IF half.stopped THEN half
                         ELSE solver_loop(half, pc, n - (n \div 2)) :
                         half \in { solver_loop(st, pc, n \div 2) } } : TRUE

\* average_price, had the payment not been scaled up to the token decimals.
average_price_unscaled(actual_usd_spent, total_tokens) ==
    IF total_tokens = 0 THEN 0 ELSE actual_usd_spent \div total_tokens

average_price(actual_usd_spent, total_tokens) ==
    IF total_tokens = 0 THEN 0
    ELSE unwrap_or(
             checked_div(unwrap_or(checked_mul(actual_usd_spent, TokenScale), 0),
                         total_tokens),
             0)

\* calculate_multi_tier_purchase, had it entered the loop with a base price
\* of zero.
calculate_multi_tier_purchase_zero_base_loops(usd_amount, current_tokens_sold, pc) ==
    LET st == IF usd_amount = 0 \/ pc.tokens_per_tier = 0
              THEN solver_start(usd_amount, 0, pc)
              ELSE solver_loop(solver_start(usd_amount, current_tokens_sold, pc),
                               pc, MAX_TIER_ITERATIONS)
    IN  [ total_tokens |-> st.total_tokens,
          actual_usd_spent |-> st.actual_usd_spent,
          start_tier |->
              IF usd_amount = 0 THEN 0
              ELSE calculate_current_tier(current_tokens_sold, pc.tokens_per_tier),
          end_tier |-> st.end_tier,
          average_price |-> average_price(st.actual_usd_spent, st.total_tokens),
          iterations |-> st.iterations,
          remaining_usd |-> st.remaining_usd,
          overflowed |-> st.overflowed,
          fell_back |-> st.fell_back,
          passes |-> st.passes ]

calculate_multi_tier_purchase(usd_amount, current_tokens_sold, pc) ==
    IF usd_amount = 0 \/ pc.tokens_per_tier = 0 \/ pc.base_price_usd = 0
    THEN [ total_tokens |-> 0, actual_usd_spent |-> 0, start_tier |-> 0,
           end_tier |-> 0, average_price |-> 0, iterations |-> 0,
           remaining_usd |-> usd_amount, overflowed |-> FALSE,
           fell_back |-> FALSE, passes |-> << >> ]
    ELSE LET st == solver_loop(solver_start(usd_amount, current_tokens_sold, pc),
                               pc, MAX_TIER_ITERATIONS)
         IN  [ total_tokens |-> st.total_tokens,
               actual_usd_spent |-> st.actual_usd_spent,
               start_tier |->
                   calculate_current_tier(current_tokens_sold, pc.tokens_per_tier),
               end_tier |-> st.end_tier,
               average_price |-> average_price(st.actual_usd_spent, st.total_tokens),
               iterations |-> st.iterations,
               remaining_usd |-> st.remaining_usd,
               overflowed |->
                   (st.overflowed
                    \/ checked_mul(st.actual_usd_spent, TokenScale) = Err),
               fell_back |-> st.fell_back,
               passes |-> st.passes ]

\* ---------------------------------------------------------------- state
VARIABLES
    config,            \* CONFIG: the persisted Config record
    pricing_config,    \* PRICING_CONFIG: the persisted PricingConfig record
    daily_stats,       \* DAILY_STATS: the persisted DailyStats record
    block_time,        \* env.block.time.seconds()
    contract_balance,  \* the bank module's balance of the contract in native_denom
    last,              \* the most recent execute call and its Result
    issued_this_day,   \* history: tokens sent to payers during the day of block_time
    limit_changed_this_day, \* history: daily_limit_bp was changed during that day
    sent_to_payers,    \* history: tokens sent to payers since instantiation
    call               \* the most recent direct call of a function of state.rs

vars == << config, pricing_config, daily_stats, block_time, contract_balance, last,
           issued_this_day, limit_changed_this_day, sent_to_payers, call >>

contract_vars == << config, pricing_config, daily_stats, block_time, contract_balance,
                    last, issued_this_day, limit_changed_this_day, sent_to_payers >>

\* Option::None of an optional Uint128 argument.
None == -1

\* The latest call of the contract was no query.
NoQuery == [ msg |-> "none" ]

NATIVE_DENOM == "ngonka"

day_of(seconds) == seconds \div SECONDS_PER_DAY

\* ------------------------------------------------------ inputs of the model
Admins == {"", "admin"}
Senders == {"admin", "mallory"}
Cw20Contracts == {"usdt"}
Buyers == {"alice"}
Recipients == {"treasury", ""}
\* The chain's answer to ValidateWrappedTokenForTrade.
ValidationAnswers == {"valid", "invalid", "error"}
PaymentAmounts == {0, 10, 11, 700}
InitDailyLimitBp == {None, 0, 50, 10001}
InitTotalSupply == {8000}
InitPricing ==
    { [base_price_usd |-> 25, tokens_per_tier |-> 40, tier_multiplier |-> 2000],
      [base_price_usd |-> 25, tokens_per_tier |-> 40, tier_multiplier |-> 0] }
DailyLimitInputs == {None, 0, 50, 10000, 10001}
\* The (base_price_usd, tokens_per_tier, tier_multiplier) of UpdatePricingConfig.
PricingUpdates ==
    { << None, None, None >>, << 1250, None, None >>, << None, 43, 1300 >>,
      << 25, 40, 2000 >>, << 0, 43, 1300 >>, << 1250, 0, 1300 >>, << 1250, 43, 0 >> }
WithdrawAmounts == {0, 60}
DepositAmounts == {60}
TimeSteps == {SECONDS_PER_DAY \div 2}
InitBlockTimes == {SECONDS_PER_DAY \div 2}

\* -------------------------------------------------------- handler results
\* The purchase a handler computed: none before the solver has run.
NoPurchase ==
    [ amount |-> 0, tokens |-> 0, spent |-> 0, start_tier |-> 0, end_tier |-> 0,
      average_price |-> 0, iterations |-> 0, fell_back |-> FALSE ]

\* Ok(Response) of a handler that saved cfg, pc and ds and emits msgs.
accepted(steps, msgs, cfg, pc, ds) ==
    [ err |-> "ok", detail |-> "", steps |-> steps, msgs |-> msgs,
      config |-> cfg, pricing_config |-> pc, daily_stats |-> ds,
      purchase |-> NoPurchase ]

\* rejected, had the handler saved its local records before it returned Err.
rejected_after_save(err, detail, steps, cfg_local, pc_local, ds_local) ==
    [ err |-> err, detail |-> detail, steps |-> steps, msgs |-> << >>,
      config |-> cfg_local, pricing_config |-> pc_local,
      daily_stats |-> ds_local, purchase |-> NoPurchase ]

\* Err(ContractError) of a handler: nothing was saved, whatever the handler's
\* local copies (cfg_local, pc_local, ds_local) had become.
rejected(err, detail, steps, cfg_local, pc_local, ds_local) ==
    [ err |-> err, detail |-> detail, steps |-> steps, msgs |-> << >>,
      config |-> config, pricing_config |-> pricing_config,
      daily_stats |-> daily_stats, purchase |-> NoPurchase ]

\* is_admin, had a contract without administrator been open to every caller.
is_admin_or_unset(cfg, sender) == cfg.admin = "" \/ sender = cfg.admin

is_admin(cfg, sender) == ~(cfg.admin = "" \/ sender # cfg.admin)

\* ------------------------------------------------------------ receive_cw20
ReceiveSteps ==
    << "paused", "validate", "parse", "rollover", "zero_amount", "solver",
       "consumed", "zero_tokens", "daily_limit", "balance", "commit", "emit" >>

\* The checks of receive_cw20 reached up to and including `name`.
reached(name) ==
    SubSeq(ReceiveSteps, 1, CHOOSE i \in 1..Len(ReceiveSteps) : ReceiveSteps[i] = name)

\* contract_paused, had the flag not been consulted.
contract_paused_ignored(cfg) == FALSE

contract_paused(cfg) == cfg.is_paused

\* no_tokens_to_buy, had the check been left out.
no_tokens_to_buy_unchecked(tokens_to_buy) == FALSE

no_tokens_to_buy(tokens_to_buy) == tokens_to_buy = 0

\* roll_daily_stats, had it adopted the new day and kept the totals.
roll_daily_stats_keeps_totals(ds, current_day) ==
    [ds EXCEPT !.current_day = current_day]

roll_daily_stats(ds, current_day) ==
    IF ds.current_day # current_day
    THEN [ current_day |-> current_day, usd_received_today |-> 0,
           tokens_sold_today |-> 0 ]
    ELSE ds

\* Err stands for the InvalidBasisPoints return.
daily_token_limit(cfg) ==
    LET amount == checked_mul(cfg.total_supply, cfg.daily_limit_bp)
    IN  IF amount = Err THEN Err ELSE checked_div(amount, BP_DENOMINATOR)

\* tokens_available_today, had the subtraction wrapped around.
tokens_available_today_wrapped(limit, ds) ==
    (limit - ds.tokens_sold_today) % (UINT_MAX + 1)

\* tokens_available_today, had it forgotten what was sold today.
tokens_available_today_full(limit, ds) == limit

tokens_available_today(limit, ds) ==
    unwrap_or(checked_sub(limit, ds.tokens_sold_today), 0)

\* exceeds_daily_limit, had it compared with >=.
exceeds_daily_limit_or_equal(tokens_to_buy, available) == tokens_to_buy >= available

exceeds_daily_limit(tokens_to_buy, available) == tokens_to_buy > available

\* Uint256 -> Uint128 of the queried balance.
balance_as_u128(balance) == IF balance > UINT_MAX THEN Err ELSE balance

\* exceeds_balance, had the balance been taken to be the configured supply.
exceeds_balance_of_supply(tokens_to_buy, balance128) ==
    tokens_to_buy > config.total_supply

exceeds_balance(tokens_to_buy, balance128) == tokens_to_buy > balance128

bank_send(to, denom, amount) ==
    [ type |-> "bank_send", to |-> to, denom |-> denom, amount |-> amount,
      contract |-> "" ]

create_cw20_transfer_msg(cw20_contract, recipient, amount) ==
    [ type |-> "cw20_transfer", to |-> recipient, denom |-> "", amount |-> amount,
      contract |-> cw20_contract ]

\* settlement_msgs, had the payment been forwarded whether or not there is an
\* administrator.
settlement_msgs_always_forward(cfg, cw20_contract, buyer, token_amount, tokens_to_buy) ==
    << bank_send(buyer, cfg.native_denom, tokens_to_buy),
       create_cw20_transfer_msg(cw20_contract, cfg.admin, token_amount) >>

settlement_msgs(cfg, cw20_contract, buyer, token_amount, tokens_to_buy) ==
    << bank_send(buyer, cfg.native_denom, tokens_to_buy) >>
    \o (IF cfg.admin # ""
        THEN << create_cw20_transfer_msg(cw20_contract, cfg.admin, token_amount) >>
        ELSE << >>)

\* One of the three checked_add of the commit fails.
commit_overflows(cfg, ds, usd_amount_to_track, tokens_to_buy) ==
    \/ checked_add(ds.usd_received_today, usd_amount_to_track) = Err
    \/ checked_add(ds.tokens_sold_today, tokens_to_buy) = Err
    \/ checked_add(cfg.total_tokens_sold, tokens_to_buy) = Err

\* commit_daily_stats, had the two amounts been swapped.
commit_daily_stats_swapped(ds, usd_amount_to_track, tokens_to_buy) ==
    [ current_day |-> ds.current_day,
      usd_received_today |-> ds.usd_received_today + tokens_to_buy,
      tokens_sold_today |-> ds.tokens_sold_today + usd_amount_to_track ]

commit_daily_stats(ds, usd_amount_to_track, tokens_to_buy) ==
    [ current_day |-> ds.current_day,
      usd_received_today |-> ds.usd_received_today + usd_amount_to_track,
      tokens_sold_today |-> ds.tokens_sold_today + tokens_to_buy ]

\* commit_config, had the cumulative total been left as it was.
commit_config_without_total(cfg, tokens_to_buy) == cfg

commit_config(cfg, tokens_to_buy) ==
    [cfg EXCEPT !.total_tokens_sold = cfg.total_tokens_sold + tokens_to_buy]

\* payment_not_consumed, had the result of the solver been taken on trust.
payment_not_consumed_unchecked(usd_amount_to_track, usd_value) == FALSE

\* usd_amount_to_track != usd_value: the solver left part of the payment.
payment_not_consumed(usd_amount_to_track, usd_value) ==
    usd_amount_to_track # usd_value

\* What the solver returned for the payment.
purchase_of(usd_value, r) ==
    [ amount |-> usd_value, tokens |-> r.total_tokens,
      spent |-> r.actual_usd_spent, start_tier |-> r.start_tier,
      end_tier |-> r.end_tier, average_price |-> r.average_price,
      iterations |-> r.iterations, fell_back |-> r.fell_back ]

\* The checks of receive_cw20 that follow the solver, and the commit.
settle_checks(cfg, pc, ds, cw20_contract, buyer, usd_value, tokens_to_buy, spent) ==
    LET limit == daily_token_limit(cfg)
        available == tokens_available_today(limit, ds)
        balance128 == balance_as_u128(contract_balance)
        new_ds == commit_daily_stats(ds, usd_value, tokens_to_buy)
        new_cfg == commit_config(cfg, tokens_to_buy)
    IN  IF payment_not_consumed(spent, usd_value)
        THEN rejected("Std", "cannot process full usd amount", reached("consumed"),
                      cfg, pc, ds)
        ELSE IF no_tokens_to_buy(tokens_to_buy)
        THEN rejected("ZeroAmount", "", reached("zero_tokens"), cfg, pc, ds)
        ELSE IF limit = Err
        THEN rejected("InvalidBasisPoints", "", reached("daily_limit"), cfg, pc, ds)
        ELSE IF exceeds_daily_limit(tokens_to_buy, available)
        THEN rejected("DailyLimitExceeded", "", reached("daily_limit"), cfg, pc, ds)
        ELSE IF balance128 = Err
        THEN rejected("Std", "contract balance exceeds Uint128", reached("balance"),
                      cfg, pc, ds)
        ELSE IF exceeds_balance(tokens_to_buy, balance128)
        THEN rejected("InsufficientBalance", "", reached("balance"), cfg, pc, ds)
        ELSE IF commit_overflows(cfg, ds, usd_value, tokens_to_buy)
        THEN rejected("Std", "overflow", reached("commit"), cfg, pc, ds)
        ELSE accepted(reached("emit"),
                      settlement_msgs(new_cfg, cw20_contract, buyer, usd_value,
                                      tokens_to_buy),
                      new_cfg, pc, new_ds)

\* The part of receive_cw20 from the solver on.
settle(cfg, pc, ds, cw20_contract, buyer, usd_value) ==
    LET r == calculate_multi_tier_purchase(usd_value, cfg.total_tokens_sold, pc)
        out == settle_checks(cfg, pc, ds, cw20_contract, buyer, usd_value,
                             r.total_tokens, r.actual_usd_spent)
    IN  [out EXCEPT !.purchase = purchase_of(usd_value, r)]

\* validate_wrapped_token_for_trade, had a failed query counted as approval.
validate_wrapped_token_for_trade_lenient(answer) ==
    IF answer = "invalid" THEN 0 ELSE 1

\* validate_wrapped_token_for_trade: Err stands for the query's error.
validate_wrapped_token_for_trade(answer) ==
    IF answer = "error" THEN Err ELSE IF answer = "valid" THEN 1 ELSE 0

\* receive_cw20, had it looked at the amount before anything else.
receive_cw20_amount_first(answer, msg_ok, cw20_contract, buyer, token_amount) ==
    LET cfg == config
        pc == pricing_config
        is_valid == validate_wrapped_token_for_trade(answer)
        ds == roll_daily_stats(daily_stats, day_of(block_time))
    IN  IF token_amount = 0
        THEN rejected("ZeroAmount", "", reached("zero_amount"), cfg, pc, ds)
        ELSE IF contract_paused(cfg)
        THEN rejected("ContractPaused", "", reached("paused"), cfg, pc, daily_stats)
        ELSE IF is_valid = Err
        THEN rejected("Std", "querier error", reached("validate"), cfg, pc, daily_stats)
        ELSE IF is_valid = 0
        THEN rejected("TokenNotAccepted", "", reached("validate"), cfg, pc, daily_stats)
        ELSE IF ~msg_ok
        THEN rejected("Std", "parse error", reached("parse"), cfg, pc, daily_stats)
        ELSE settle(cfg, pc, ds, cw20_contract, buyer, token_amount)

receive_cw20(answer, msg_ok, cw20_contract, buyer, token_amount) ==
    LET cfg == config
        pc == pricing_config
        is_valid == validate_wrapped_token_for_trade(answer)
        current_day == day_of(block_time)
        ds == roll_daily_stats(daily_stats, current_day)
    IN  IF contract_paused(cfg)
        THEN rejected("ContractPaused", "", reached("paused"), cfg, pc, daily_stats)
        ELSE IF is_valid = Err
        THEN rejected("Std", "querier error", reached("validate"), cfg, pc, daily_stats)
        ELSE IF is_valid = 0
        THEN rejected("TokenNotAccepted", "", reached("validate"), cfg, pc, daily_stats)
        ELSE IF ~msg_ok
        THEN rejected("Std", "parse error", reached("parse"), cfg, pc, daily_stats)
        ELSE IF token_amount = 0
        THEN rejected("ZeroAmount", "", reached("zero_amount"), cfg, pc, ds)
        ELSE settle(cfg, pc, ds, cw20_contract, buyer, token_amount)

\* ------------------------------------------------- administrative handlers
\* deps.api.addr_validate: the empty string is no address.
addr_validate(addr) == addr # ""

\* pause_contract, had it refused to pause what is paused already.
pause_contract_once(sender) ==
    IF ~is_admin(config, sender) \/ config.is_paused
    THEN rejected("Unauthorized", "", << >>, config, pricing_config, daily_stats)
    ELSE accepted(<< >>, << >>, [config EXCEPT !.is_paused = TRUE],
                  pricing_config, daily_stats)

pause_contract(sender) ==
    IF ~is_admin(config, sender)
    THEN rejected("Unauthorized", "", << >>, config, pricing_config, daily_stats)
    ELSE accepted(<< >>, << >>, [config EXCEPT !.is_paused = TRUE],
                  pricing_config, daily_stats)

\* resume_contract, had it started the day's totals afresh.
resume_contract_with_fresh_totals(sender) ==
    IF ~is_admin(config, sender)
    THEN rejected("Unauthorized", "", << >>, config, pricing_config, daily_stats)
    ELSE accepted(<< >>, << >>, [config EXCEPT !.is_paused = FALSE],
                  pricing_config,
                  [daily_stats EXCEPT !.usd_received_today = 0,
                                      !.tokens_sold_today = 0])

resume_contract(sender) ==
    IF ~is_admin(config, sender)
    THEN rejected("Unauthorized", "", << >>, config, pricing_config, daily_stats)
    ELSE accepted(<< >>, << >>, [config EXCEPT !.is_paused = FALSE],
                  pricing_config, daily_stats)

\* valid_basis_points, had it checked the upper end only.
valid_basis_points_or_zero(bp) == bp <= BP_DENOMINATOR

valid_basis_points(bp) == ~(bp = 0 \/ bp > BP_DENOMINATOR)

\* update_daily_limit, had it been open to every caller.
update_daily_limit_by_anyone(sender, daily_limit_bp) ==
    LET bp == IF daily_limit_bp = None THEN DEFAULT_DAILY_LIMIT_BP ELSE daily_limit_bp
        cfg == [config EXCEPT !.daily_limit_bp = bp]
    IN  IF ~valid_basis_points(bp)
        THEN rejected("InvalidBasisPoints", "", << >>, cfg, pricing_config, daily_stats)
        ELSE accepted(<< >>, << >>, cfg, pricing_config, daily_stats)

update_daily_limit(sender, daily_limit_bp) ==
    LET bp == IF daily_limit_bp = None THEN DEFAULT_DAILY_LIMIT_BP ELSE daily_limit_bp
        cfg == [config EXCEPT !.daily_limit_bp = bp]
    IN  IF ~is_admin(config, sender)
        THEN rejected("Unauthorized", "", << >>, config, pricing_config, daily_stats)
        ELSE IF ~valid_basis_points(bp)
        THEN rejected("InvalidBasisPoints", "", << >>, cfg, pricing_config, daily_stats)
        ELSE accepted(<< >>, << >>, cfg, pricing_config, daily_stats)

withdraw_native_tokens(sender, amount, recipient) ==
    IF ~is_admin(config, sender)
    THEN rejected("Unauthorized", "", << >>, config, pricing_config, daily_stats)
    ELSE IF ~addr_validate(recipient)
    THEN rejected("Std", "invalid address", << >>, config, pricing_config, daily_stats)
    ELSE IF amount = 0
    THEN rejected("ZeroAmount", "", << >>, config, pricing_config, daily_stats)
    ELSE accepted(<< >>, << bank_send(recipient, config.native_denom, amount) >>,
                  config, pricing_config, daily_stats)

emergency_withdraw(sender, recipient) ==
    IF ~is_admin(config, sender)
    THEN rejected("Unauthorized", "", << >>, config, pricing_config, daily_stats)
    ELSE IF ~addr_validate(recipient)
    THEN rejected("Std", "invalid address", << >>, config, pricing_config, daily_stats)
    ELSE IF contract_balance = 0
    THEN accepted(<< >>, << >>, config, pricing_config, daily_stats)
    ELSE accepted(<< >>,
                  << bank_send(recipient, config.native_denom, contract_balance) >>,
                  config, pricing_config, daily_stats)

\* The three `if let Some(..)` blocks of update_pricing_config, in their order;
\* the record is saved only after the last of them.
\* update_pricing_config, had it saved each parameter as soon as it had
\* checked it.
update_pricing_config_saving_each(sender, base_price_usd, tokens_per_tier, tier_multiplier) ==
    LET pc1 == IF base_price_usd = None THEN pricing_config
               ELSE [pricing_config EXCEPT !.base_price_usd = base_price_usd]
        pc2 == IF tokens_per_tier = None THEN pc1
               ELSE [pc1 EXCEPT !.tokens_per_tier = tokens_per_tier]
        pc3 == IF tier_multiplier = None THEN pc2
               ELSE [pc2 EXCEPT !.tier_multiplier = tier_multiplier]
        refused(err, pc) ==
            [rejected(err, "", << >>, config, pc, daily_stats)
                EXCEPT !.pricing_config = pc]
    IN  IF ~is_admin(config, sender) THEN refused("Unauthorized", pricing_config)
        ELSE IF base_price_usd = 0 THEN refused("ZeroAmount", pricing_config)
        ELSE IF tokens_per_tier = 0 THEN refused("ZeroAmount", pc1)
        ELSE IF tier_multiplier = 0 THEN refused("InvalidExchangeRate", pc2)
        ELSE accepted(<< >>, << >>, config, pc3, daily_stats)

update_pricing_config(sender, base_price_usd, tokens_per_tier, tier_multiplier) ==
    LET pc1 == IF base_price_usd = None THEN pricing_config
               ELSE [pricing_config EXCEPT !.base_price_usd = base_price_usd]
        pc2 == IF tokens_per_tier = None THEN pc1
               ELSE [pc1 EXCEPT !.tokens_per_tier = tokens_per_tier]
        pc3 == IF tier_multiplier = None THEN pc2
               ELSE [pc2 EXCEPT !.tier_multiplier = tier_multiplier]
    IN  IF ~is_admin(config, sender)
        THEN rejected("Unauthorized", "", << >>, config, pricing_config, daily_stats)
        ELSE IF base_price_usd = 0
        THEN rejected("ZeroAmount", "", << >>, config, pricing_config, daily_stats)
        ELSE IF tokens_per_tier = 0
        THEN rejected("ZeroAmount", "", << >>, config, pc1, daily_stats)
        ELSE IF tier_multiplier = 0
        THEN rejected("InvalidExchangeRate", "", << >>, config, pc2, daily_stats)
        ELSE accepted(<< >>, << >>, config, pc3, daily_stats)

add_payment_token(sender, answer, usd_rate) ==
    LET is_valid == validate_wrapped_token_for_trade(answer)
    IN  IF ~is_admin(config, sender)
        THEN rejected("Unauthorized", "", << >>, config, pricing_config, daily_stats)
        ELSE IF usd_rate = 0
        THEN rejected("InvalidExchangeRate", "", << >>, config, pricing_config,
                      daily_stats)
        ELSE IF is_valid = Err
        THEN rejected("Std", "querier error", << >>, config, pricing_config, daily_stats)
        ELSE IF is_valid = 0
        THEN rejected("TokenNotAccepted", "", << >>, config, pricing_config, daily_stats)
        ELSE accepted(<< >>, << >>, config, pricing_config, daily_stats)

remove_payment_token(sender) ==
    IF ~is_admin(config, sender)
    THEN rejected("Unauthorized", "", << >>, config, pricing_config, daily_stats)
    ELSE accepted(<< >>, << >>, config, pricing_config, daily_stats)

\* ------------------------------------------------------------ transitions
RECURSIVE native_sent(_)
\* The native tokens the bank messages of msgs move out of the contract.
native_sent(msgs) ==
    IF msgs = << >> THEN 0
    ELSE (IF Head(msgs).type = "bank_send" THEN Head(msgs).amount ELSE 0)
         + native_sent(Tail(msgs))

\* One execute call: what the handler saved is committed together with the
\* messages it emits; when the bank cannot carry out a send the chain reverts
\* the whole call.
bank_fails(out) == native_sent(out.msgs) > contract_balance

result_of(op, sender, answer, out) ==
    [ op |-> op,
      sender |-> sender,
      answer |-> answer,
      err |-> IF bank_fails(out) THEN "Std" ELSE out.err,
      detail |-> IF bank_fails(out) THEN "bank send failed" ELSE out.detail,
      steps |-> out.steps,
      msgs |-> IF bank_fails(out) THEN << >> ELSE out.msgs,
      purchase |-> out.purchase,
      query |-> NoQuery ]

execute(op, out) ==
    LET paid == IF op = "receive" /\ out.err = "ok" /\ ~bank_fails(out)
                THEN out.purchase.tokens ELSE 0
    IN  /\ config' = IF bank_fails(out) THEN config ELSE out.config
        /\ pricing_config' =
               IF bank_fails(out) THEN pricing_config ELSE out.pricing_config
        /\ daily_stats' = IF bank_fails(out) THEN daily_stats ELSE out.daily_stats
        /\ contract_balance' =
               IF bank_fails(out) THEN contract_balance
               ELSE contract_balance - native_sent(out.msgs)
        /\ issued_this_day' = issued_this_day + paid
        /\ sent_to_payers' = sent_to_payers + paid
        /\ limit_changed_this_day' =
               (limit_changed_this_day
                \/ (~bank_fails(out)
                    /\ out.config.daily_limit_bp # config.daily_limit_bp))
        /\ UNCHANGED << block_time, call >>

Receive ==
    \E answer \in ValidationAnswers, msg_ok \in BOOLEAN, c \in Cw20Contracts,
       buyer \in Buyers, amount \in PaymentAmounts :
        LET out == receive_cw20(answer, msg_ok, c, buyer, amount)
        IN  /\ last' = result_of("receive", c, answer, out)
            /\ execute("receive", out)

Pause ==
    \E sender \in Senders :
        /\ last' = result_of("pause", sender, "", pause_contract(sender))
        /\ execute("pause", pause_contract(sender))

Resume ==
    \E sender \in Senders :
        /\ last' = result_of("resume", sender, "", resume_contract(sender))
        /\ execute("resume", resume_contract(sender))

UpdateDailyLimit ==
    \E sender \in Senders, bp \in DailyLimitInputs :
        /\ last' = result_of("update_daily_limit", sender, "", update_daily_limit(sender, bp))
        /\ execute("update_daily_limit", update_daily_limit(sender, bp))

WithdrawNativeTokens ==
    \E sender \in Senders, amount \in WithdrawAmounts, recipient \in Recipients :
        LET out == withdraw_native_tokens(sender, amount, recipient)
        IN  /\ last' = result_of("withdraw_native_tokens", sender, "", out)
            /\ execute("withdraw_native_tokens", out)

EmergencyWithdraw ==
    \E sender \in Senders, recipient \in Recipients :
        LET out == emergency_withdraw(sender, recipient)
        IN  /\ last' = result_of("emergency_withdraw", sender, "", out)
            /\ execute("emergency_withdraw", out)

UpdatePricingConfig ==
    \E sender \in Senders, u \in PricingUpdates :
        LET out == update_pricing_config(sender, u[1], u[2], u[3])
        IN  /\ last' = result_of("update_pricing_config", sender, "", out)
            /\ execute("update_pricing_config", out)

AddPaymentToken ==
    \E sender \in Senders, answer \in ValidationAnswers, usd_rate \in {0, 1} :
        LET out == add_payment_token(sender, answer, usd_rate)
        IN  /\ last' = result_of("add_payment_token", sender, "", out)
            /\ execute("add_payment_token", out)

RemovePaymentToken ==
    \E sender \in Senders :
        /\ last' = result_of("remove_payment_token", sender, "", remove_payment_token(sender))
        /\ execute("remove_payment_token", remove_payment_token(sender))

\* The chain produces a later block.
AdvanceTime ==
    \E dt \in TimeSteps :
        /\ block_time + dt <= MaxDays * SECONDS_PER_DAY
        /\ block_time' = block_time + dt
        /\ issued_this_day' =
               IF day_of(block_time + dt) # day_of(block_time) THEN 0
               ELSE issued_this_day
        /\ limit_changed_this_day' =
               (day_of(block_time + dt) = day_of(block_time) /\ limit_changed_this_day)
        /\ UNCHANGED << config, pricing_config, daily_stats, contract_balance, last,
                        sent_to_payers, call >>

\* Somebody sends native tokens to the contract (a bank transfer, not a call).
Deposit ==
    \E d \in DepositAmounts :
        /\ contract_balance + sent_to_payers + d <= MaxFunding
        /\ contract_balance' = contract_balance + d
        /\ UNCHANGED << config, pricing_config, daily_stats, block_time, last,
                        issued_this_day, limit_changed_this_day, sent_to_payers, call >>

NoCall == [ fn |-> "none" ]

NoExecute ==
    [ op |-> "instantiate", sender |-> "", answer |-> "", err |-> "ok", detail |-> "", steps |-> << >>,
      msgs |-> << >>, purchase |-> NoPurchase, query |-> NoQuery ]

\* instantiate, for every InstantiateMsg of the model that it accepts.
instantiate(admin, daily_limit_bp, total_supply, pc) ==
    LET bp == IF daily_limit_bp = None THEN DEFAULT_DAILY_LIMIT_BP ELSE daily_limit_bp
    IN  /\ valid_basis_points(bp)
        /\ config = [ admin |-> admin, native_denom |-> NATIVE_DENOM,
                      daily_limit_bp |-> bp, is_paused |-> FALSE,
                      total_supply |-> total_supply, total_tokens_sold |-> 0 ]
        /\ pricing_config = pc
        /\ daily_stats = [ current_day |-> day_of(block_time),
                           usd_received_today |-> 0, tokens_sold_today |-> 0 ]

Init ==
    /\ block_time \in InitBlockTimes
    /\ contract_balance = 0
    /\ \E admin \in Admins, bp \in InitDailyLimitBp, supply \in InitTotalSupply,
          pc \in InitPricing : instantiate(admin, bp, supply, pc)
    /\ last = NoExecute
    /\ issued_this_day = 0
    /\ limit_changed_this_day = FALSE
    /\ sent_to_payers = 0
    /\ call = NoCall

Next ==
    \/ Receive
    \/ Pause
    \/ Resume
    \/ UpdateDailyLimit
    \/ WithdrawNativeTokens
    \/ EmergencyWithdraw
    \/ UpdatePricingConfig
    \/ AddPaymentToken
    \/ RemovePaymentToken
    \/ AdvanceTime
    \/ Deposit

Spec == Init /\ [][Next]_vars

\* ------------------------------------------- direct calls of state.rs
\* The functions of state.rs are public and pure: this specification calls
\* them on arguments of its own, the contract standing still.
SolverPayments == {0, 1, 5, 8, 10, 11, 30, 260}
SolverSold == {0, 4, 28, 39, 40, 100}
SolverPricing ==
    [ base_price_usd : {25, 250, 25000}, tokens_per_tier : {30, 40, 43},
      tier_multiplier : {1000, 1300, 2000} ]

CallSolver ==
    \E usd \in SolverPayments, sold \in SolverSold, pc \in SolverPricing :
        /\ call.fn = "none"
        /\ call' = [ fn |-> "calculate_multi_tier_purchase", usd |-> usd,
                     sold |-> sold, pc |-> pc,
                     result |-> calculate_multi_tier_purchase(usd, sold, pc) ]
        /\ UNCHANGED contract_vars

\* Pricing configurations with a zero parameter, which instantiate stores as
\* given: no tier size, no base price, and no price above tier 0.
DegeneratePricing ==
    { [base_price_usd |-> 25, tokens_per_tier |-> 0, tier_multiplier |-> 1300],
      [base_price_usd |-> 0, tokens_per_tier |-> 40, tier_multiplier |-> 1300],
      [base_price_usd |-> 25, tokens_per_tier |-> 40, tier_multiplier |-> 0] }

CallSolverDegenerate ==
    \E usd \in SolverPayments, sold \in SolverSold, pc \in DegeneratePricing :
        /\ call.fn = "none"
        /\ call' = [ fn |-> "calculate_multi_tier_purchase", usd |-> usd,
                     sold |-> sold, pc |-> pc,
                     result |-> calculate_multi_tier_purchase(usd, sold, pc) ]
        /\ UNCHANGED contract_vars

Return ==
    /\ call.fn # "none"
    /\ call' = NoCall
    /\ UNCHANGED contract_vars

InitCalls ==
    /\ Init
    /\ config.admin = "admin"
    /\ config.daily_limit_bp = DEFAULT_DAILY_LIMIT_BP
    /\ pricing_config.tier_multiplier # 0

\* The arguments of the direct calls of the three functions of the tier math.
TierSold == {0, 39, 40, 100, TIER_MODULUS - 1, TIER_MODULUS, UINT_MAX}
TierSizes == {0, 1, 40}
PriceBases == {25, 1000, UINT_MAX}
PriceTiers == 0..4
PriceMultipliers == {0, 999, 1000, 1300, 2000}
TokenPayments ==
    {0, 1, 8, 260, UINT_MAX \div TokenScale, (UINT_MAX \div TokenScale) + 1, UINT_MAX}
TokenPrices == {0, 1, 25, 250, UINT_MAX}

CallTier ==
    \E tokens_sold \in TierSold, tokens_per_tier \in TierSizes :
        /\ call' = [ fn |-> "calculate_current_tier", tokens_sold |-> tokens_sold,
                     tokens_per_tier |-> tokens_per_tier,
                     result |-> calculate_current_tier(tokens_sold, tokens_per_tier) ]
        /\ UNCHANGED contract_vars

CallPrice ==
    \E base_price \in PriceBases, current_tier \in PriceTiers,
       tier_multiplier \in PriceMultipliers :
        /\ call' = [ fn |-> "calculate_current_price", base_price |-> base_price,
                     current_tier |-> current_tier,
                     tier_multiplier |-> tier_multiplier,
                     result |-> calculate_current_price(base_price, current_tier,
                                                        tier_multiplier) ]
        /\ UNCHANGED contract_vars

CallTokens ==
    \E usd_amount \in TokenPayments, price_per_token \in TokenPrices :
        /\ call' = [ fn |-> "calculate_tokens_for_usd", usd_amount |-> usd_amount,
                     price_per_token |-> price_per_token,
                     result |-> calculate_tokens_for_usd(usd_amount, price_per_token) ]
        /\ UNCHANGED contract_vars

NextCalls ==
    \/ CallSolver
    \/ CallSolverDegenerate
    \/ CallTier
    \/ CallPrice
    \/ CallTokens
    \/ Return

SpecCalls == InitCalls /\ [][NextCalls]_vars


\* ================================================================ claims
has_step(steps, name) == \E i \in 1..Len(steps) : steps[i] = name

\* The step is a call of receive_cw20: it leaves its result in last, and it is
\* neither a new block nor a deposit.
ReceiveStep ==
    /\ last'.op = "receive"
    /\ block_time' = block_time
    /\ contract_balance' <= contract_balance

\* The persisted records are what they were.
Untouched == UNCHANGED << config, pricing_config, daily_stats >>

\* The pricing parameters are positive and the multiplier does not lower prices.
SoundPricing(pc) ==
    pc.base_price_usd > 0 /\ pc.tokens_per_tier > 0 /\ pc.tier_multiplier >= 1000

\* Tokens sold on the day of block_time according to the stored record.
SoldOnObservedDay ==
    IF daily_stats.current_day = day_of(block_time)
    THEN daily_stats.tokens_sold_today ELSE 0

UsdOnObservedDay ==
    IF daily_stats.current_day = day_of(block_time)
    THEN daily_stats.usd_received_today ELSE 0

\* floor(total_supply * daily_limit_bp / 10000), when the product fits Uint128.
LimitFits == config.total_supply * config.daily_limit_bp <= UINT_MAX

LimitInForce == (config.total_supply * config.daily_limit_bp) \div BP_DENOMINATOR

\* C1: a rejected receive_cw20, whatever its reason, leaves the three
\* persisted records (the stored day included) and the balance as they were
\* and emits no message.
C1_RejectionLeavesNoTrace ==
    [][ (ReceiveStep /\ last'.err # "ok")
        => (Untouched /\ last'.msgs = << >>
            /\ contract_balance' = contract_balance) ]_vars

\* C1 witness: a receive rejected for the daily cap on a day that the stored
\* record has not seen yet.
C1_Witness ==
    /\ last.op = "receive"
    /\ last.err = "DailyLimitExceeded"
    /\ daily_stats.current_day # day_of(block_time)

\* C2: with sound pricing, a positive payment, fewer than 50 passes and no
\* overflow, calculate_multi_tier_purchase spends the whole payment.
C2_WholePaymentConsumed ==
    (/\ call.fn = "calculate_multi_tier_purchase"
     /\ call.usd > 0
     /\ SoundPricing(call.pc)
     /\ call.result.iterations < MAX_TIER_ITERATIONS
     /\ ~call.result.overflowed)
    => call.result.actual_usd_spent = call.usd

\* C3: while the sale is paused every receive_cw20 fails with ContractPaused,
\* and no step changes cumulative sold, the daily statistics or what payers
\* were sent.
C3_PausedSaleStandsStill ==
    [][ config.is_paused
        => /\ ReceiveStep => (last'.err = "ContractPaused" /\ last'.msgs = << >>)
           /\ config'.total_tokens_sold = config.total_tokens_sold
           /\ daily_stats' = daily_stats
           /\ sent_to_payers' = sent_to_payers ]_vars

\* C3 witness: a receive rejected as paused although the contract holds tokens.
C3_Witness ==
    /\ last.op = "receive"
    /\ last.err = "ContractPaused"
    /\ config.is_paused
    /\ contract_balance > 0

\* C4: a receive_cw20 whose instrument the chain does not confirm (a negative
\* answer or a failed query) is rejected before the solver, the cap check and
\* the balance check, with nothing saved.
C4_UnconfirmedInstrumentRejected ==
    [][ (ReceiveStep /\ last'.answer # "valid")
        => /\ last'.err # "ok"
           /\ ~config.is_paused
              => /\ last'.err = (IF last'.answer = "invalid"
                                 THEN "TokenNotAccepted" ELSE "Std")
                 /\ last'.steps = reached("validate")
           /\ ~has_step(last'.steps, "solver")
           /\ ~has_step(last'.steps, "daily_limit")
           /\ ~has_step(last'.steps, "balance")
           /\ last'.purchase = NoPurchase
           /\ last'.msgs = << >>
           /\ sent_to_payers' = sent_to_payers
           /\ Untouched ]_vars

\* C4 witness: a rejected instrument while the sale runs, the contract holds
\* tokens and the daily cap leaves room.
C4_Witness ==
    /\ last.op = "receive"
    /\ last.err = "TokenNotAccepted"
    /\ ~config.is_paused
    /\ contract_balance > 0
    /\ LimitFits /\ LimitInForce > SoldOnObservedDay

\* C5: at the cap check, a purchase of more tokens than the limit less what
\* was sold today is rejected with DailyLimitExceeded and nothing is saved or
\* sent; a purchase of exactly that many is not rejected there.
C5_DailyCapAllOrNothing ==
    [][ (ReceiveStep /\ has_step(last'.steps, "daily_limit") /\ LimitFits)
        => /\ last'.purchase.tokens > LimitInForce - SoldOnObservedDay
              => (last'.err = "DailyLimitExceeded" /\ Untouched
                  /\ last'.msgs = << >> /\ sent_to_payers' = sent_to_payers)
           /\ last'.purchase.tokens = LimitInForce - SoldOnObservedDay
              => last'.err # "DailyLimitExceeded" ]_vars

\* C5 witness: a purchase rejected for the cap although part of it would fit.
C5_Witness ==
    /\ last.op = "receive"
    /\ last.err = "DailyLimitExceeded"
    /\ LimitFits
    /\ SoldOnObservedDay > 0
    /\ SoldOnObservedDay < LimitInForce

\* C5, the other case: a purchase of exactly the remaining allowance went through.
C5_ExactAllowanceSold ==
    /\ last.op = "receive"
    /\ last.err = "ok"
    /\ LimitFits
    /\ daily_stats.tokens_sold_today = LimitInForce

\* C6: on a day during which daily_limit_bp was not changed, the tokens sent
\* to payers that day never exceed floor(total_supply * daily_limit_bp / 10000).
C6_DailyIssuanceWithinLimit ==
    ~limit_changed_this_day => issued_this_day <= LimitInForce

\* C6 witness: two settlements of one day, the limit unchanged.
C6_Witness ==
    /\ ~limit_changed_this_day
    /\ last.op = "receive" /\ last.err = "ok"
    /\ issued_this_day > last.purchase.tokens

\* C7: a receive_cw20 succeeds only with tokens_to_buy within the bank balance
\* of the contract, and one that reaches the balance check with more is
\* rejected with InsufficientBalance.
C7_LiveBalanceIsAuthoritative ==
    [][ ReceiveStep
        => /\ last'.err = "ok" => last'.purchase.tokens <= contract_balance
           /\ (has_step(last'.steps, "balance")
               /\ last'.purchase.tokens > contract_balance)
              => (last'.err = "InsufficientBalance" /\ Untouched) ]_vars

\* C7 witness: InsufficientBalance although the daily cap and the configured
\* supply allow the purchase.
C7_Witness ==
    /\ last.op = "receive"
    /\ last.err = "InsufficientBalance"
    /\ LimitFits
    /\ last.purchase.tokens <= LimitInForce - SoldOnObservedDay
    /\ last.purchase.tokens <= config.total_supply - config.total_tokens_sold

\* C8 as claimed: a non-zero payment under sound pricing for which the solver
\* returns zero tokens is rejected with ZeroAmount.
C8_ZeroTokensIsZeroAmount ==
    [][ (ReceiveStep /\ has_step(last'.steps, "solver") /\ SoundPricing(pricing_config)
         /\ last'.purchase.amount > 0 /\ last'.purchase.tokens = 0)
        => last'.err = "ZeroAmount" ]_vars

\* C8 amended: no receive_cw20 succeeds with a zero payment or zero tokens; a
\* zero payment is ZeroAmount; a payment the solver spends in full for zero
\* tokens is ZeroAmount; a payment the solver does not spend in full (zero
\* tokens or not) is the Std "cannot process full usd amount" failure.
C8_NoEmptySettlement ==
    [][ ReceiveStep
        => /\ last'.err = "ok"
              => /\ last'.purchase.amount > 0
                 /\ last'.purchase.tokens > 0
                 /\ last'.msgs[1].type = "bank_send"
                 /\ last'.msgs[1].amount >= 1
           /\ last'.steps = reached("zero_amount") => last'.err = "ZeroAmount"
           /\ has_step(last'.steps, "solver")
              => /\ last'.purchase.spent # last'.purchase.amount
                    => (last'.err = "Std" /\ last'.steps = reached("consumed"))
                 /\ (last'.purchase.spent = last'.purchase.amount
                     /\ last'.purchase.tokens = 0)
                    => last'.err = "ZeroAmount" ]_vars

\* C8 witness: a payment spent in full that buys no token.
C8_Witness ==
    /\ last.op = "receive"
    /\ last.err = "ZeroAmount"
    /\ last.purchase.amount > 0
    /\ last.purchase.spent = last.purchase.amount
    /\ last.purchase.tokens = 0

\* C9: a successful receive_cw20 adds tokens_to_buy to cumulative sold and to
\* tokens_sold_today (after any rollover), adds the payment to
\* usd_received_today, and changes nothing else of Config or PricingConfig.
C9_SettlementFrame ==
    [][ (ReceiveStep /\ last'.err = "ok")
        => /\ config' = [config EXCEPT !.total_tokens_sold =
                                           config.total_tokens_sold
                                           + last'.purchase.tokens]
           /\ pricing_config' = pricing_config
           /\ daily_stats'.tokens_sold_today =
                  SoldOnObservedDay + last'.purchase.tokens
           /\ daily_stats'.usd_received_today =
                  UsdOnObservedDay + last'.purchase.amount ]_vars

\* C9 witness: a second settlement of a day, at a price where tokens and
\* payment differ.
C9_Witness ==
    /\ last.op = "receive" /\ last.err = "ok"
    /\ daily_stats.usd_received_today > last.purchase.amount
    /\ last.purchase.tokens # last.purchase.amount

\* C10: a successful receive_cw20 on a day other than the stored one stores
\* that day with its own amounts as the totals, the old totals not counting
\* against the cap; on the stored day it adds to the totals.
C10_LazyRollover ==
    [][ ReceiveStep
        => /\ last'.err = "ok"
              => daily_stats' =
                   IF daily_stats.current_day # day_of(block_time)
                   THEN [ current_day |-> day_of(block_time),
                          usd_received_today |-> last'.purchase.amount,
                          tokens_sold_today |-> last'.purchase.tokens ]
                   ELSE [ current_day |-> daily_stats.current_day,
                          usd_received_today |->
                              daily_stats.usd_received_today + last'.purchase.amount,
                          tokens_sold_today |->
                              daily_stats.tokens_sold_today + last'.purchase.tokens ]
           /\ (/\ daily_stats.current_day # day_of(block_time)
               /\ has_step(last'.steps, "daily_limit") /\ LimitFits
               /\ last'.purchase.tokens <= LimitInForce)
              => last'.err # "DailyLimitExceeded" ]_vars

\* C10 witness: a settlement that fits the cap only because the totals of the
\* day before were dropped.
C10_Witness ==
    /\ last.op = "receive" /\ last.err = "ok"
    /\ daily_stats.current_day = day_of(block_time)
    /\ daily_stats.tokens_sold_today = last.purchase.tokens
    /\ LimitFits
    /\ sent_to_payers > LimitInForce

\* C11: a successful receive_cw20 emits first one bank send of the tokens
\* bought to the buyer and then, exactly when an administrator is configured,
\* one CW20 transfer of the whole payment to the administrator.
C11_SettlementMessages ==
    [][ (ReceiveStep /\ last'.err = "ok")
        => /\ Len(last'.msgs) = (IF config.admin = "" THEN 1 ELSE 2)
           /\ last'.msgs[1].type = "bank_send"
           /\ last'.msgs[1].to \in Buyers
           /\ last'.msgs[1].denom = config.native_denom
           /\ last'.msgs[1].amount = last'.purchase.tokens
           /\ contract_balance' = contract_balance - last'.purchase.tokens
           /\ config.admin # ""
              => /\ last'.msgs[2].type = "cw20_transfer"
                 /\ last'.msgs[2].contract = last'.sender
                 /\ last'.msgs[2].to = config.admin
                 /\ last'.msgs[2].amount = last'.purchase.amount ]_vars

\* C11 witness: a settlement of a contract without administrator, where the
\* payment and the tokens bought differ.
C11_Witness ==
    /\ last.op = "receive" /\ last.err = "ok"
    /\ config.admin = ""
    /\ Len(last.msgs) = 1
    /\ last.purchase.tokens # last.purchase.amount

\* C11: the other case, a settlement forwarded to the administrator.
C11_ForwardedSettlement ==
    /\ last.op = "receive" /\ last.err = "ok"
    /\ config.admin # ""
    /\ Len(last.msgs) = 2

\* The six operations of the administrator.
AdminGated ==
    { "pause", "resume", "update_daily_limit", "update_pricing_config",
      "withdraw_native_tokens", "emergency_withdraw" }

\* The step is a call of one of them.
AdminStep ==
    /\ last'.op \in AdminGated
    /\ block_time' = block_time
    /\ contract_balance' <= contract_balance

\* C12: each of the six, called by anyone but the configured administrator
\* or with no administrator configured, fails with Unauthorized, saves
\* nothing and sends nothing, whatever its other arguments.
C12_AdminOnly ==
    [][ (AdminStep /\ (config.admin = "" \/ last'.sender # config.admin))
        => /\ last'.err = "Unauthorized"
           /\ Untouched
           /\ last'.msgs = << >>
           /\ contract_balance' = contract_balance ]_vars

\* C12 witness: a withdrawal refused to a stranger while the contract holds
\* tokens and has an administrator.
C12_Witness ==
    /\ last.op \in { "withdraw_native_tokens", "emergency_withdraw" }
    /\ last.err = "Unauthorized"
    /\ config.admin # "" /\ last.sender # config.admin
    /\ contract_balance > 0

\* C12: the other case, no administrator configured.
C12_NoAdministrator ==
    /\ last.op \in AdminGated
    /\ last.err = "Unauthorized"
    /\ config.admin = ""

\* ------------------------------------------------ claims on the solver
\* The arguments and the result of the solver call in `call`.
SolverCalled == call.fn = "calculate_multi_tier_purchase"

\* tier_of(cumulative_sold_before) and the price of that tier.
TierBefore == calculate_current_tier(call.sold, call.pc.tokens_per_tier)

PriceBefore ==
    calculate_current_price(call.pc.base_price_usd, TierBefore,
                            call.pc.tier_multiplier)

\* What is left of the tier before the purchase, and what it costs.
LeftBefore == call.pc.tokens_per_tier - (call.sold % call.pc.tokens_per_tier)

CostBefore == (LeftBefore * PriceBefore) \div TokenScale

\* The payment does not reach beyond the tier the sale is in.
StaysInTier ==
    /\ SolverCalled
    /\ call.pc.tokens_per_tier > 0 /\ PriceBefore > 0
    /\ call.usd <= CostBefore

\* What C13 says of such a purchase.
SingleTierResult ==
    /\ call.result.total_tokens = (call.usd * TokenScale) \div PriceBefore
    /\ call.result.actual_usd_spent = call.usd
    /\ call.result.start_tier = TierBefore
    /\ (call.sold % call.pc.tokens_per_tier) + call.result.total_tokens
           < call.pc.tokens_per_tier
       => call.result.end_tier = call.result.start_tier

\* C13 as stated: every payment that is at most the cost of the rest of the
\* tier, a payment of zero included, gets floor(payment * 10^9 / price)
\* tokens, is spent in full and starts (and, below the boundary, ends) in
\* the tier of cumulative sold.
C13_SingleTierPurchase == StaysInTier => SingleTierResult

\* C13, for a positive payment and a cost that fits Uint128.
C13_SingleTierPurchasePaid ==
    (StaysInTier /\ call.usd > 0 /\ LeftBefore * PriceBefore <= UINT_MAX)
    => SingleTierResult

\* C13 witness: a purchase inside a tier above tier 0 that buys tokens and
\* leaves some of the tier.
C13_Witness ==
    /\ StaysInTier /\ call.usd > 0 /\ LeftBefore * PriceBefore <= UINT_MAX
    /\ TierBefore > 0
    /\ call.result.total_tokens > 0
    /\ call.result.total_tokens < LeftBefore
    /\ call.result.end_tier = TierBefore

\* The tier after the one the sale is in, its price and what all of it costs.
PriceNext ==
    calculate_current_price(call.pc.base_price_usd, TierBefore + 1,
                            call.pc.tier_multiplier)

CostNext == (call.pc.tokens_per_tier * PriceNext) \div TokenScale

\* The payment reaches beyond the tier the sale is in, and not beyond the next.
CrossesOnce ==
    /\ SolverCalled
    /\ call.pc.tokens_per_tier > 0 /\ PriceBefore > 0 /\ PriceNext > 0
    /\ call.usd > CostBefore
    /\ call.usd - CostBefore <= CostNext

\* C14: a payment that exceeds the cost of the rest of the tier, and not by
\* more than the whole next tier costs, is spent in full: that cost at the
\* price of the tier and the rest at the price of the next tier, from
\* start_tier = tier_of(cumulative sold) to end_tier = start_tier + 1.
C14_TwoTierPurchase ==
    CrossesOnce
    => /\ call.result.actual_usd_spent = call.usd
       /\ call.result.start_tier = TierBefore
       /\ call.result.end_tier = TierBefore + 1
       /\ call.result.total_tokens =
              ((CostBefore * TokenScale) \div PriceBefore)
              + (((call.usd - CostBefore) * TokenScale) \div PriceNext)

\* A purchase as in Scenario B: the rest of the tier is bought whole, to the
\* last token, and the purchase goes on in the next tier.
C14_ScenarioB ==
    /\ CrossesOnce
    /\ call.result.actual_usd_spent = call.usd
    /\ call.result.end_tier = TierBefore + 1
    /\ call.result.iterations = 2

\* The purchase bought tokens and ended in the tier it started in.
WithinOneTier ==
    /\ SolverCalled
    /\ call.result.total_tokens > 0
    /\ call.result.start_tier = call.result.end_tier

\* C15 as stated: a purchase that bought tokens without crossing a tier
\* boundary has exactly the price of its tier as blended price.
C15_SingleTierIdentity ==
    WithinOneTier => call.result.average_price = PriceBefore

\* C15, with the rounding of the two divisions: the blended price is never
\* below the price of the tier, and after a single pass it exceeds the price
\* by floor((payment * 10^9 mod price) / tokens), which is 0 exactly when
\* that remainder is smaller than the tokens bought.
C15_SingleTierBlendedPrice ==
    (WithinOneTier /\ ~call.result.overflowed)
    => /\ call.result.average_price >= PriceBefore
       /\ call.result.iterations = 1
          => call.result.average_price =
                 PriceBefore
                 + (((call.result.actual_usd_spent * TokenScale) % PriceBefore)
                    \div call.result.total_tokens)

\* C15 witness: a purchase inside a tier above tier 0 whose blended price is
\* the price of the tier.
C15_Witness ==
    /\ WithinOneTier /\ ~call.result.overflowed
    /\ call.result.iterations = 1
    /\ TierBefore > 0
    /\ call.result.average_price = PriceBefore

\* C15: the other case, a blended price above the price of the tier.
C15_RoundedUp ==
    /\ WithinOneTier /\ ~call.result.overflowed
    /\ call.result.average_price > PriceBefore

\* The price of the tier the purchase ended in.
PriceAfter ==
    calculate_current_price(call.pc.base_price_usd, call.result.end_tier,
                            call.pc.tier_multiplier)

\* The purchase ended in a later tier than it started in, prices rising.
CrossesBoundary ==
    /\ SolverCalled
    /\ call.result.end_tier > call.result.start_tier
    /\ call.pc.tier_multiplier > 1000

\* C16 as stated: the blended price of a purchase that crosses a tier
\* boundary under a multiplier above 1000 lies strictly between the price of
\* its start tier and the price of its end tier.
C16_BlendedStrictlyBetween ==
    CrossesBoundary
    => /\ call.result.average_price > PriceBefore
       /\ call.result.average_price < PriceAfter

\* C16, with the rounding of the divisions: when nothing overflows the
\* blended price is at least the price of the start tier, and it exceeds the
\* price of the end tier by less than one part in tokens / iterations.
C16_BlendedWithinRounding ==
    (CrossesBoundary /\ ~call.result.overflowed)
    => /\ call.result.total_tokens > 0
       /\ call.result.average_price >= PriceBefore
       /\ call.result.average_price * call.result.total_tokens
              < PriceAfter * (call.result.total_tokens + call.result.iterations)

\* C16 witness: tokens bought in two tiers at a blended price strictly
\* between the two prices, as in Scenario B.
C16_Witness ==
    /\ CrossesBoundary /\ ~call.result.overflowed
    /\ call.result.iterations = 2
    /\ call.result.passes[1].tokens > 0
    /\ call.result.passes[2].tokens > 0
    /\ call.result.passes[2].price > call.result.passes[1].price
    /\ call.result.average_price > PriceBefore
    /\ call.result.average_price < PriceAfter

\* C16: a purchase that buys the rest of its tier and nothing beyond it ends
\* in the next tier at the price of the tier it started in.
C16_ExactlyExhausted ==
    /\ CrossesBoundary /\ ~call.result.overflowed
    /\ call.result.iterations = 1
    /\ call.result.average_price = PriceBefore

\* C16: a blended price above the price of the end tier.
C16_AboveEndPrice ==
    /\ CrossesBoundary /\ ~call.result.overflowed
    /\ call.result.average_price > PriceAfter

\* ------------------------------------------------ claims on the tier math
\* C17: calculate_current_tier does not decrease when tokens_sold grows, the
\* tier size being the same, whatever the size of the quotient; and a tier
\* size of 0 gives tier 0.
C17_TierMonotone ==
    [][ (/\ call.fn = "calculate_current_tier"
         /\ call'.fn = "calculate_current_tier")
        => /\ call'.tokens_per_tier = 0 => call'.result = 0
           /\ (/\ call'.tokens_per_tier = call.tokens_per_tier
               /\ call.tokens_sold <= call'.tokens_sold)
              => call.result <= call'.result ]_vars

\* C18: with a multiplier of at least 1000, calculate_current_price of the
\* next tier is not below that of the tier, overflowing steps included.
C18_PriceMonotone ==
    [][ (/\ call.fn = "calculate_current_price"
         /\ call'.fn = "calculate_current_price"
         /\ call'.base_price = call.base_price
         /\ call'.tier_multiplier = call.tier_multiplier
         /\ call.tier_multiplier >= 1000
         /\ call'.current_tier = call.current_tier + 1)
        => call'.result >= call.result ]_vars

\* The price one tier below that of the call in `call`.
PriceBelow ==
    calculate_current_price(call.base_price, call.current_tier - 1,
                            call.tier_multiplier)

\* price * multiplier of the last step of the call overflows Uint128.
LastStepOverflows ==
    call.tier_multiplier > 0 /\ PriceBelow > UINT_MAX \div call.tier_multiplier

\* C19: the last step of calculate_current_price leaves the price as it was
\* when price * multiplier overflows, and makes it
\* floor(price * multiplier / 1000) otherwise.
C19_OverflowKeepsPrice ==
    (call.fn = "calculate_current_price" /\ call.current_tier > 0)
    => call.result = IF LastStepOverflows THEN PriceBelow
                     ELSE (PriceBelow * call.tier_multiplier) \div 1000

C20_PaymentOutOfRange ==
    /\ call.fn = "calculate_tokens_for_usd"
    /\ call.price_per_token > 0
    /\ call.usd_amount * TokenScale > UINT_MAX
    /\ (call.usd_amount * TokenScale) \div call.price_per_token <= UINT_MAX
    /\ call.result = 0

\* ------------------------------------------------------------- queries
\* The queries read the persisted records and the block time and save
\* nothing; the response of the latest one is kept in call.
query_config ==
    [ admin |-> config.admin, native_denom |-> config.native_denom,
      daily_limit_bp |-> config.daily_limit_bp, is_paused |-> config.is_paused,
      total_tokens_sold |-> config.total_tokens_sold ]

\* The limit as query_daily_stats computes it: 0 where receive_cw20 fails.
query_daily_token_limit(cfg) ==
    LET amount == checked_mul(cfg.total_supply, cfg.daily_limit_bp)
    IN  IF amount = Err THEN 0 ELSE unwrap_or(checked_div(amount, BP_DENOMINATOR), 0)

\* query_rolled_stats, had it reported the stored record whatever the day.
query_rolled_stats_stale(ds, current_day) == ds

\* The local copy of the daily record, reset when the day has changed.
query_rolled_stats(ds, current_day) ==
    IF ds.current_day # current_day
    THEN [ current_day |-> current_day, usd_received_today |-> 0,
           tokens_sold_today |-> 0 ]
    ELSE ds

query_tokens_available_today(limit, ds) ==
    unwrap_or(checked_sub(limit, ds.tokens_sold_today), 0)

query_daily_stats ==
    LET ds == query_rolled_stats(daily_stats, day_of(block_time))
        limit == query_daily_token_limit(config)
    IN  [ current_day |-> ds.current_day,
          usd_received_today |-> ds.usd_received_today,
          tokens_sold_today |-> ds.tokens_sold_today,
          tokens_available_today |-> query_tokens_available_today(limit, ds),
          daily_token_limit |-> limit,
          total_supply |-> config.total_supply ]

\* current_tier + 1 on u32: past the last tier the sum overflows, which
\* aborts the query in a build with overflow checks and wraps to 0 without.
tier_plus_one(current_tier, overflow_checks) ==
    IF current_tier + 1 < TIER_MODULUS THEN current_tier + 1
    ELSE IF overflow_checks THEN Err ELSE 0

query_pricing_info(overflow_checks) ==
    LET current_tier ==
            calculate_current_tier(config.total_tokens_sold,
                                   pricing_config.tokens_per_tier)
        next_tier == tier_plus_one(current_tier, overflow_checks)
    IN  IF next_tier = Err THEN [ aborted |-> TRUE ]
        ELSE [ aborted |-> FALSE,
               current_tier |-> current_tier,
               current_price_usd |->
                   calculate_current_price(pricing_config.base_price_usd,
                                           current_tier,
                                           pricing_config.tier_multiplier),
               total_tokens_sold |-> config.total_tokens_sold,
               tokens_per_tier |-> pricing_config.tokens_per_tier,
               base_price_usd |-> pricing_config.base_price_usd,
               tier_multiplier |-> pricing_config.tier_multiplier,
               next_tier_at |->
                   unwrap_or(checked_mul(pricing_config.tokens_per_tier, next_tier), 0),
               next_tier_price |->
                   calculate_current_price(pricing_config.base_price_usd,
                                           next_tier,
                                           pricing_config.tier_multiplier) ]

\* query_calculate_tokens, had it priced every payment at the base price.
query_calculate_tokens_at_base(usd_amount) ==
    [ tokens |-> calculate_tokens_for_usd(usd_amount, pricing_config.base_price_usd),
      current_price |-> pricing_config.base_price_usd,
      current_tier |-> 0 ]

query_calculate_tokens(usd_amount) ==
    LET current_tier ==
            calculate_current_tier(config.total_tokens_sold,
                                   pricing_config.tokens_per_tier)
        current_price ==
            calculate_current_price(pricing_config.base_price_usd, current_tier,
                                    pricing_config.tier_multiplier)
    IN  [ tokens |-> calculate_tokens_for_usd(usd_amount, current_price),
          current_price |-> current_price,
          current_tier |-> current_tier ]

QueryUsdAmounts == {0, 10}

\* What a query leaves in last: the message and its response. A query has
\* no sender to check, saves nothing and sends nothing.
answered(op, query) ==
    [ op |-> op, sender |-> "", answer |-> "", err |-> "ok", detail |-> "",
      steps |-> << >>, msgs |-> << >>, purchase |-> NoPurchase, query |-> query ]

\* What a query leaves alone: everything but last.
queried ==
    UNCHANGED << config, pricing_config, daily_stats, block_time, contract_balance,
                 issued_this_day, limit_changed_this_day, sent_to_payers, call >>

QueryConfig ==
    /\ last' = answered("query_config",
                        [ msg |-> "config", response |-> query_config ])
    /\ queried

QueryDailyStats ==
    /\ last' = answered("query_daily_stats",
                        [ msg |-> "daily_stats", response |-> query_daily_stats ])
    /\ queried

QueryPricingInfo ==
    \E overflow_checks \in BOOLEAN :
        /\ last' = answered("query_pricing_info",
                            [ msg |-> "pricing_info",
                              response |-> query_pricing_info(overflow_checks) ])
        /\ queried

QueryCalculateTokens ==
    \E usd_amount \in QueryUsdAmounts :
        /\ last' = answered("query_calculate_tokens",
                            [ msg |-> "calculate_tokens", usd_amount |-> usd_amount,
                              response |-> query_calculate_tokens(usd_amount) ])
        /\ queried

\* The contract with its queries: any caller may ask at any time.
NextQueries ==
    \/ Next
    \/ QueryConfig
    \/ QueryDailyStats
    \/ QueryPricingInfo
    \/ QueryCalculateTokens

SpecQueries == Init /\ [][NextQueries]_vars

\* ------------------------------------------ the far ends of the numbers
\* total_tokens_sold only grows, by what the daily limit and the balance
\* admit, and nothing stops it short of the largest Uint128; instantiate
\* takes any multiplier. This specification starts at those ends: either
\* where settlements alone lead after more days than MaxDays, with almost as
\* many tokens sold as a Uint128 counts and a tier size of that order at the
\* lowest price, or from nothing sold with a multiplier that no price can
\* be multiplied by.
LateSold == {0, UINT_MAX - 175}
LatePricing ==
    { [base_price_usd |-> 1, tokens_per_tier |-> UINT_MAX - 75, tier_multiplier |-> m] :
        m \in {MULTIPLIER_DENOMINATOR, 2 * MULTIPLIER_DENOMINATOR} }
    \cup { [base_price_usd |-> 25, tokens_per_tier |-> 40,
            tier_multiplier |-> 50 * MULTIPLIER_DENOMINATOR] }
LateTotalSupply == {10000}
LateBalances == {0, 2 * TokenScale}
LatePayments == {0, 1, 10, (UINT_MAX - 75) \div TokenScale + 1}

InitLate ==
    /\ block_time \in InitBlockTimes
    /\ contract_balance \in LateBalances
    /\ \E supply \in LateTotalSupply, sold \in LateSold :
           config = [ admin |-> "admin", native_denom |-> NATIVE_DENOM,
                      daily_limit_bp |-> DEFAULT_DAILY_LIMIT_BP, is_paused |-> FALSE,
                      total_supply |-> supply, total_tokens_sold |-> sold ]
    /\ pricing_config \in LatePricing
    /\ daily_stats = [ current_day |-> day_of(block_time),
                       usd_received_today |-> 0, tokens_sold_today |-> 0 ]
    /\ last = NoExecute
    /\ issued_this_day = 0
    /\ limit_changed_this_day = FALSE
    /\ sent_to_payers = 0
    /\ call = NoCall

ReceiveLate ==
    \E answer \in ValidationAnswers, msg_ok \in BOOLEAN, c \in Cw20Contracts,
       buyer \in Buyers, amount \in LatePayments :
        LET out == receive_cw20(answer, msg_ok, c, buyer, amount)
        IN  /\ last' = result_of("receive", c, answer, out)
            /\ execute("receive", out)

NextLate ==
    \/ ReceiveLate
    \/ Pause
    \/ Resume
    \/ AdvanceTime
    \/ QueryPricingInfo

SpecLate == InitLate /\ [][NextLate]_vars

\* ------------------------------------------------- one pricing, kept
\* The sale under a pricing configuration that instantiate stored and
\* nobody updates, with payments that end in the middle of a tier, at its
\* last whole payment unit, and beyond it.
KeptPricing ==
    { [base_price_usd |-> 25, tokens_per_tier |-> 30, tier_multiplier |-> m] :
        m \in {MULTIPLIER_DENOMINATOR, 1300} }
KeptPayments == {1, 7, 8}

InitKept ==
    /\ block_time \in InitBlockTimes
    /\ contract_balance = 0
    /\ \E supply \in InitTotalSupply, pc \in KeptPricing :
           instantiate("admin", None, supply, pc)
    /\ last = NoExecute
    /\ issued_this_day = 0
    /\ limit_changed_this_day = FALSE
    /\ sent_to_payers = 0
    /\ call = NoCall

ReceiveKept ==
    \E answer \in ValidationAnswers, msg_ok \in BOOLEAN, c \in Cw20Contracts,
       buyer \in Buyers, amount \in KeptPayments :
        LET out == receive_cw20(answer, msg_ok, c, buyer, amount)
        IN  /\ last' = result_of("receive", c, answer, out)
            /\ execute("receive", out)

NextKept ==
    \/ ReceiveKept
    \/ Pause
    \/ Resume
    \/ AdvanceTime
    \/ Deposit

SpecKept == InitKept /\ [][NextKept]_vars

\* ------------------------------------------- claims on the contract, again
\* C21: the solver never makes more than 50 passes, and a receive_cw20 whose
\* payment it has not spent in full, the 50 passes used up, is rejected and
\* saves nothing; every settlement that succeeds has spent its whole payment.
C21_CeilingNeverTruncates ==
    [][ ReceiveStep
        => /\ last'.purchase.iterations <= MAX_TIER_ITERATIONS
           /\ last'.err = "ok" => last'.purchase.spent = last'.purchase.amount
           /\ (/\ last'.purchase.iterations = MAX_TIER_ITERATIONS
               /\ last'.purchase.spent < last'.purchase.amount)
              => (/\ last'.err = "Std"
                  /\ last'.detail = "cannot process full usd amount"
                  /\ Untouched
                  /\ last'.msgs = << >>) ]_vars

\* C21 witness: a payment rejected after 50 passes that left part of it,
\* although it had bought tokens.
C21_Witness ==
    /\ last.op = "receive"
    /\ last.purchase.iterations = MAX_TIER_ITERATIONS
    /\ last.purchase.spent < last.purchase.amount
    /\ last.purchase.tokens > 0
    /\ last.err = "Std"

\* The step is the query named: its answer is in last and nothing else moved.
QueryStep(op) ==
    /\ last'.op = op
    /\ block_time' = block_time
    /\ contract_balance' = contract_balance

\* More was sold on the day of block_time than the limit now in force allows.
SoldBeyondLimit == LimitFits /\ SoldOnObservedDay > LimitInForce

\* C22: with more sold today than the daily limit (the limit being
\* computable), query_daily_stats reports tokens_available_today = 0, and a
\* receive_cw20 that reaches the cap check, so with at least one token to
\* issue, is rejected with DailyLimitExceeded and saves and sends nothing.
C22_NothingLeftBeyondLimit ==
    [][ /\ (QueryStep("query_daily_stats") /\ SoldBeyondLimit)
           => /\ last'.query.response.tokens_available_today = 0
              /\ last'.query.response.tokens_sold_today
                     > last'.query.response.daily_token_limit
        /\ (ReceiveStep /\ SoldBeyondLimit /\ has_step(last'.steps, "daily_limit"))
           => (/\ last'.purchase.tokens >= 1
               /\ last'.err = "DailyLimitExceeded"
               /\ Untouched
               /\ last'.msgs = << >>) ]_vars

\* C22 witness: the limit was lowered below what was already sold today but
\* not to nothing, and the query has answered that nothing is left.
C22_Witness ==
    /\ SoldBeyondLimit
    /\ LimitInForce > 0
    /\ last.op = "query_daily_stats"
    /\ last.query.response.current_day = day_of(block_time)
    /\ last.query.response.tokens_available_today = 0
    /\ last.query.response.tokens_sold_today = SoldOnObservedDay
    /\ last.query.response.daily_token_limit = LimitInForce

\* C22, the other half: a purchase within the lowered limit turned away.
C22_TurnedAway ==
    /\ SoldBeyondLimit
    /\ last.op = "receive"
    /\ last.err = "DailyLimitExceeded"
    /\ last.purchase.tokens <= LimitInForce

\* daily_limit_bp is a number of basis points that instantiate accepts.
BasisPointsInRange(cfg) == 0 < cfg.daily_limit_bp /\ cfg.daily_limit_bp <= BP_DENOMINATOR

\* C23: daily_limit_bp stays within 1..10000 from instantiate on; an
\* update_daily_limit by the administrator with 0 or more than 10000 is
\* rejected with InvalidBasisPoints and saves nothing; and the stored value
\* changes in no step but a successful update_daily_limit.
C23_BasisPointsInRange ==
    [][ /\ BasisPointsInRange(config)
        /\ BasisPointsInRange(config')
        /\ \A sender \in Senders, bp \in DailyLimitInputs \ {None} :
               (is_admin(config, sender) /\ (bp = 0 \/ bp > BP_DENOMINATOR))
               => /\ update_daily_limit(sender, bp).err = "InvalidBasisPoints"
                  /\ update_daily_limit(sender, bp).config = config
        /\ (AdminStep /\ last'.op = "update_daily_limit"
            /\ last'.err = "InvalidBasisPoints")
           => Untouched
        /\ config'.daily_limit_bp # config.daily_limit_bp
           => (last'.op = "update_daily_limit" /\ last'.err = "ok") ]_vars

\* C23 witness: the limit was changed from what instantiate stored, and the
\* administrator's next update, out of range, was rejected.
C23_Witness ==
    /\ last.op = "update_daily_limit"
    /\ last.err = "InvalidBasisPoints"
    /\ last.sender = config.admin
    /\ config.daily_limit_bp = BP_DENOMINATOR

\* C24: in every state from instantiate on, base_price_usd, tokens_per_tier
\* and tier_multiplier are all strictly positive.
C24_PricingPositive ==
    /\ pricing_config.base_price_usd > 0
    /\ pricing_config.tokens_per_tier > 0
    /\ pricing_config.tier_multiplier > 0

\* What query_daily_stats is to report of the day of block_time.
DailyStatsAsked(r) ==
    /\ r.current_day = day_of(block_time)
    /\ r.total_supply = config.total_supply
    /\ LimitFits => r.daily_token_limit = LimitInForce
    /\ r.usd_received_today = UsdOnObservedDay
    /\ r.tokens_sold_today = SoldOnObservedDay
    /\ daily_stats.current_day # day_of(block_time)
       => r.tokens_available_today = r.daily_token_limit

\* A settlement went through in this step.
SettledStep == ReceiveStep /\ last'.err = "ok" /\ last' # last

\* The administrator changed the daily limit in this step.
LimitChangedStep == config'.daily_limit_bp # config.daily_limit_bp

\* C25 as stated: query_daily_stats saves nothing, the stored record changes
\* only in a successful receive_cw20, a query on a later day reports zero
\* totals and the whole limit, and on one day the response changes in no
\* step but a successful receive_cw20.
C25_SameDaySameAnswer ==
    [][ /\ QueryStep("query_daily_stats")
           => (Untouched /\ DailyStatsAsked(last'.query.response))
        /\ daily_stats' # daily_stats => (last'.op = "receive" /\ last'.err = "ok")
        /\ (day_of(block_time') = day_of(block_time) /\ daily_stats' = daily_stats)
           => query_daily_stats' = query_daily_stats ]_vars

\* C25, amended: the same, except that on one day the response changes in
\* no step but a successful receive_cw20 or a successful update_daily_limit.
C25_SameDaySameAnswerUnlessLimitChanged ==
    [][ /\ QueryStep("query_daily_stats")
           => (Untouched /\ DailyStatsAsked(last'.query.response))
        /\ daily_stats' # daily_stats => (last'.op = "receive" /\ last'.err = "ok")
        /\ (day_of(block_time') = day_of(block_time) /\ daily_stats' = daily_stats
            /\ ~LimitChangedStep)
           => query_daily_stats' = query_daily_stats
        /\ LimitChangedStep => (last'.op = "update_daily_limit" /\ last'.err = "ok") ]_vars

\* C25 witness: a query on the day after the last settlement reports zero
\* totals and the whole limit while the stored record still has that
\* settlement's day and totals.
C25_Witness ==
    /\ last.op = "query_daily_stats"
    /\ daily_stats.current_day # day_of(block_time)
    /\ last.query.response.current_day = day_of(block_time)
    /\ daily_stats.tokens_sold_today > 0
    /\ last.query.response.tokens_sold_today = 0
    /\ last.query.response.usd_received_today = 0
    /\ last.query.response.daily_token_limit > 0
    /\ last.query.response.tokens_available_today
           = last.query.response.daily_token_limit

\* The tier and the price of what has been sold, as the pricing functions
\* give them.
TierNow ==
    calculate_current_tier(config.total_tokens_sold, pricing_config.tokens_per_tier)

PriceNow ==
    calculate_current_price(pricing_config.base_price_usd, TierNow,
                            pricing_config.tier_multiplier)

C26_AtBasePrice ==
    /\ last.op = "query_calculate_tokens"
    /\ config.total_tokens_sold = 0
    /\ last.query.usd_amount > 0
    /\ last.query.response.current_tier = 0
    /\ last.query.response.current_price = pricing_config.base_price_usd
    /\ last.query.response.tokens
           = (last.query.usd_amount * TokenScale) \div pricing_config.base_price_usd

\* The step is a call of pause or of resume that succeeded.
PausedStep == AdminStep /\ last'.op = "pause" /\ last'.err = "ok"

ResumedStep == AdminStep /\ last'.op = "resume" /\ last'.err = "ok"

\* C27: is_paused is false until the first call; a successful pause makes it
\* true, a successful resume false, and no other step changes it, so that it
\* tells which of the two succeeded last; only the administrator succeeds;
\* the administrator's pause of a paused contract and resume of a running
\* one succeed and keep the flag; and query_config reports the stored flag.
C27_PausedFlagFollowsLastSwitch ==
    [][ /\ last.op = "instantiate" => ~config.is_paused
        /\ PausedStep => (config'.is_paused /\ is_admin(config, last'.sender))
        /\ ResumedStep => (~config'.is_paused /\ is_admin(config, last'.sender))
        /\ ~(PausedStep \/ ResumedStep) => config'.is_paused = config.is_paused
        /\ (AdminStep /\ last'.op \in {"pause", "resume"}
            /\ is_admin(config, last'.sender))
           => /\ last'.err = "ok"
              /\ config' = [config EXCEPT !.is_paused = (last'.op = "pause")]
        /\ QueryStep("query_config")
           => /\ last'.query.response.is_paused = config.is_paused
              /\ Untouched ]_vars

\* C27 witness: the administrator paused a contract that was paused, the
\* flag stayed, and query_config has said so.
C27_Witness ==
    /\ last.op = "query_config"
    /\ last.query.response.is_paused
    /\ config.is_paused

\* C27, the other way: a resume by the administrator was the last to
\* succeed, a pause by somebody else was refused since, and the sale runs.
C27_RefusedPauseChangesNothing ==
    /\ last.op = "pause" /\ last.err = "Unauthorized"
    /\ config.admin # ""
    /\ ~config.is_paused
    /\ sent_to_payers > 0

\* C28: no receive_cw20 succeeds whose solver took the fallback of a failed
\* checked operation other than the multiplication of the price escalation:
\* the attempt is rejected and nothing is saved.
C28_NoSettlementFromFallback ==
    [][ (ReceiveStep /\ last'.purchase.fell_back)
        => (last'.err # "ok" /\ Untouched /\ last'.msgs = << >>) ]_vars

\* The conditions of the claim for one payment in the present state, each
\* told from the state and the payment alone.
Failing(answer, amount) ==
    LET r == calculate_multi_tier_purchase(amount, config.total_tokens_sold,
                                           pricing_config)
        left == IF SoldOnObservedDay > LimitInForce THEN 0
                ELSE LimitInForce - SoldOnObservedDay
    IN  [ paused |-> config.is_paused,
          validate |-> answer # "valid",
          zero_amount |-> amount = 0,
          consumed |-> r.actual_usd_spent # amount,
          zero_tokens |-> r.total_tokens = 0,
          daily_limit |-> r.total_tokens > left,
          balance |-> r.total_tokens > contract_balance ]

\* The order of the claim.
RejectionOrder ==
    << "paused", "validate", "zero_amount", "consumed", "zero_tokens",
       "daily_limit", "balance" >>

\* The failure each of them is reported as.
RejectionErr ==
    [ paused |-> {"ContractPaused"}, validate |-> {"TokenNotAccepted", "Std"},
      zero_amount |-> {"ZeroAmount"}, consumed |-> {"Std"},
      zero_tokens |-> {"ZeroAmount"}, daily_limit |-> {"DailyLimitExceeded"},
      balance |-> {"InsufficientBalance"} ]

\* The check at which receive_cw20 stopped.
StoppedAt(out) == out.steps[Len(out.steps)]

\* C29: of the conditions that hold for a payment the first in the order
\* paused, instrument not approved, zero amount, payment not spent in full,
\* zero tokens, daily limit exceeded, balance too low is the one receive_cw20
\* stops at and reports; it succeeds when none holds. (The message being
\* well formed and the daily limit computable.)
C29_FirstFailureReported ==
    \A answer \in ValidationAnswers, amount \in PaymentAmounts :
        LET out == receive_cw20(answer, TRUE, "usdt", "alice", amount)
            f == Failing(answer, amount)
            holding == { i \in 1..Len(RejectionOrder) : f[RejectionOrder[i]] }
            first == RejectionOrder[CHOOSE i \in holding : \A j \in holding : i <= j]
        IN  LimitFits
            => IF holding = {} THEN out.err = "ok"
               ELSE /\ StoppedAt(out) = first
                    /\ out.err \in RejectionErr[first]

\* C29 witness: a payment of nothing, with an instrument not approved, to a
\* paused contract was reported as ContractPaused.
C29_Witness ==
    /\ last.op = "receive"
    /\ last.err = "ContractPaused"
    /\ last.answer = "invalid"
    /\ Failing(last.answer, 0).zero_amount
    /\ LimitFits

\* C29, further down the order: more tokens than the day allows and than the
\* balance holds was reported as DailyLimitExceeded.
C29_CapBeforeBalance ==
    /\ last.op = "receive"
    /\ last.err = "DailyLimitExceeded"
    /\ last.purchase.tokens > contract_balance
    /\ LimitFits

\* What query_pricing_info reports, in a build where it cannot abort.
PricingReport == query_pricing_info(FALSE)

\* C30: while pricing_config is not changed and its multiplier is at least
\* 1000, the current_tier and current_price_usd that query_pricing_info
\* reports decrease in no step, and change in no step but a successful
\* receive_cw20.
C30_ReportedPriceNeverFalls ==
    [][ (pricing_config' = pricing_config
         /\ pricing_config.tier_multiplier >= MULTIPLIER_DENOMINATOR)
        => /\ PricingReport'.current_tier >= PricingReport.current_tier
           /\ PricingReport'.current_price_usd >= PricingReport.current_price_usd
           /\ ~(ReceiveStep /\ last'.err = "ok")
              => /\ PricingReport'.current_tier = PricingReport.current_tier
                 /\ PricingReport'.current_price_usd
                        = PricingReport.current_price_usd
           /\ QueryStep("query_pricing_info")
              => last'.query.response = PricingReport ]_vars

\* ------------------------------------------------ claims C31 to C39
\* The solver spends the payment in full and issues tokens for it: what is
\* left to decide is the pause, the instrument, the allowance and the balance.
Consumable(amount) ==
    LET r == calculate_multi_tier_purchase(amount, config.total_tokens_sold,
                                           pricing_config)
    IN  r.actual_usd_spent = amount /\ r.total_tokens > 0

\* C31: with positive pricing parameters and a multiplier of at least 1000,
\* in every state that successful settlements lead to there is a positive
\* payment that the solver spends in full for at least one token.
C31_SomePaymentAccepted ==
    SoundPricing(pricing_config) => \E amount \in 1..MaxProbe : Consumable(amount)

\* Where the loop of the call in `call` stood when it ended: cumulative sold
\* after its passes, the price of the tier holding it, and what the next
\* pass could have spent there.
SoldReached ==
    IF call.result.passes = << >> THEN call.sold
    ELSE LET p == call.result.passes[Len(call.result.passes)]
         IN  p.sold_before + p.tokens

PriceReached ==
    calculate_current_price(
        call.pc.base_price_usd,
        calculate_current_tier(SoldReached, call.pc.tokens_per_tier),
        call.pc.tier_multiplier)

SpendReached ==
    usd_to_spend_in_tier(call.result.remaining_usd,
                         usd_for_remaining_tier(SoldReached, call.pc, PriceReached))

\* The loop ran: the early return was not taken.
LoopRan ==
    SolverCalled /\ call.usd > 0
    /\ call.pc.tokens_per_tier > 0 /\ call.pc.base_price_usd > 0

\* The loop ended with payment left, before its 50 passes were used.
StoppedShort ==
    /\ LoopRan
    /\ call.result.remaining_usd > 0
    /\ call.result.iterations < MAX_TIER_ITERATIONS

\* C32: with no tier size or no base price the solver returns all zeros;
\* otherwise every pass it made had a positive price and spent a positive
\* amount, it ends short of its 50 passes with payment left exactly when the
\* price of the tier reached or the amount spendable there is zero, and the
\* payment left is then not consumed, so that receive_cw20 rejects the
\* purchase: no accepted purchase has tokens issued at price zero.
C32_StopsAtZero ==
    SolverCalled
    => /\ (call.pc.tokens_per_tier = 0 \/ call.pc.base_price_usd = 0)
          => /\ call.result.total_tokens = 0
             /\ call.result.actual_usd_spent = 0
             /\ call.result.start_tier = 0
             /\ call.result.end_tier = 0
             /\ call.result.average_price = 0
       /\ \A i \in 1..Len(call.result.passes) :
              /\ call.result.passes[i].price > 0
              /\ call.result.passes[i].usd > 0
       /\ call.result.iterations = Len(call.result.passes)
       /\ (LoopRan /\ call.result.remaining_usd > 0
           /\ (PriceReached = 0 \/ SpendReached = 0))
          => /\ call.result.iterations < MAX_TIER_ITERATIONS
             /\ call.result.actual_usd_spent + call.result.remaining_usd = call.usd
             /\ payment_not_consumed(call.result.actual_usd_spent, call.usd)
       /\ StoppedShort => (PriceReached = 0 \/ SpendReached = 0)

\* C32 witness: under a multiplier of zero a payment buys the rest of tier 0
\* and the solver stops in tier 1, whose price is zero, with payment left.
C32_Witness ==
    /\ StoppedShort
    /\ call.pc.tier_multiplier = 0
    /\ call.result.iterations = 1
    /\ call.result.total_tokens > 0
    /\ PriceReached = 0
    /\ payment_not_consumed(call.result.actual_usd_spent, call.usd)

\* C32: the other stop, at a positive price with nothing spendable.
C32_NothingSpendable ==
    /\ StoppedShort
    /\ PriceReached > 0
    /\ SpendReached = 0

\* Pass i of the call in `call`, and what was left of its tier before it.
PassOf(i) == call.result.passes[i]

LeftBeforePass(i) ==
    call.pc.tokens_per_tier - (PassOf(i).sold_before % call.pc.tokens_per_tier)

\* C33: every pass of the solver starts where the one before ended, issues
\* at most the tokens left in its tier, all of them inside that tier and at
\* the price of that tier, and so ends at most at the next tier boundary;
\* end_tier - start_tier is at most the number of passes.
C33_PassStaysInTier ==
    SolverCalled
    => /\ \A i \in 1..Len(call.result.passes) :
              /\ PassOf(i).sold_before =
                     IF i = 1 THEN call.sold
                     ELSE PassOf(i - 1).sold_before + PassOf(i - 1).tokens
              /\ PassOf(i).tier =
                     calculate_current_tier(PassOf(i).sold_before,
                                            call.pc.tokens_per_tier)
              /\ PassOf(i).price =
                     calculate_current_price(call.pc.base_price_usd, PassOf(i).tier,
                                             call.pc.tier_multiplier)
              /\ PassOf(i).tokens <= LeftBeforePass(i)
              /\ PassOf(i).tokens > 0
                 => calculate_current_tier(
                        PassOf(i).sold_before + PassOf(i).tokens - 1,
                        call.pc.tokens_per_tier) = PassOf(i).tier
              /\ calculate_current_tier(PassOf(i).sold_before + PassOf(i).tokens,
                                        call.pc.tokens_per_tier)
                 <= PassOf(i).tier + 1
       /\ call.result.end_tier - call.result.start_tier <= call.result.iterations

\* C33 witness: a first pass that issues exactly what was left of a tier
\* already begun, and a second pass that issues tokens of the next tier.
C33_Witness ==
    /\ SolverCalled
    /\ call.result.iterations = 2
    /\ call.sold % call.pc.tokens_per_tier > 0
    /\ PassOf(1).tokens = LeftBeforePass(1)
    /\ PassOf(2).tokens > 0
    /\ PassOf(2).tier = PassOf(1).tier + 1
    /\ call.result.end_tier = call.result.start_tier + 1

\* No checked operation of the call overflowed, and the number of every
\* tier it touched fits the 32 bits of a tier number.
NothingOverflowed ==
    /\ ~call.result.overflowed
    /\ call.pc.tokens_per_tier > 0
       => SoldReached \div call.pc.tokens_per_tier < TIER_MODULUS

\* C34: with a multiplier of at least 1000 and no overflow, the tokens of a
\* purchase cost at the price of its start tier no more than the payment
\* consumed, tokens * price_at(start_tier) <= payment consumed * 10^9, and
\* the blended price of a purchase that issued tokens is at least that price.
C34_NeverBelowStartPrice ==
    (SolverCalled /\ call.pc.tier_multiplier >= 1000 /\ NothingOverflowed)
    => /\ call.result.total_tokens * PriceBefore
              <= call.result.actual_usd_spent * TokenScale
       /\ call.result.total_tokens > 0
          => call.result.average_price >= PriceBefore

\* C34 witness: a purchase over two tiers of rising price, which gets
\* fewer tokens than the payment would buy at the price of its start tier.
C34_Witness ==
    /\ SolverCalled /\ call.pc.tier_multiplier > 1000 /\ NothingOverflowed
    /\ call.result.iterations >= 2
    /\ PassOf(2).tokens > 0
    /\ PassOf(2).price > PassOf(1).price
    /\ (call.result.total_tokens + 1) * PriceBefore
           <= call.result.actual_usd_spent * TokenScale
    /\ call.result.average_price > PriceBefore

\* A settlement that succeeded.
Settled == ReceiveStep /\ last'.err = "ok"

\* C35: cumulative tokens sold is zero after initialization and only grows,
\* in each successful settlement by the tokens it issued, which is what its
\* bank message sends to the payer out of the balance, and by nothing at any
\* other step: it is the total sent to payers so far, and tokens_sold_today
\* never exceeds it.
C35_SoldIsSumOfIssued ==
    /\ config.total_tokens_sold = 0
    /\ sent_to_payers = 0
    /\ daily_stats.tokens_sold_today = 0
    /\ [][ /\ config'.total_tokens_sold >= config.total_tokens_sold
           /\ config'.total_tokens_sold - config.total_tokens_sold =
                  IF Settled THEN last'.purchase.tokens ELSE 0
           /\ Settled
              => /\ native_sent(last'.msgs) = last'.purchase.tokens
                 /\ last'.msgs[1].type = "bank_send"
                 /\ last'.msgs[1].to \in Buyers
                 /\ last'.msgs[1].denom = config.native_denom
                 /\ last'.msgs[1].amount = last'.purchase.tokens
                 /\ contract_balance - contract_balance' = last'.purchase.tokens
           /\ config'.total_tokens_sold = sent_to_payers'
           /\ daily_stats'.tokens_sold_today <= config'.total_tokens_sold ]_vars

\* C35 witness: after settlements on two days, cumulative tokens sold is
\* what was sent to payers and exceeds what was sold on the present day.
C35_Witness ==
    /\ last.op = "receive" /\ last.err = "ok"
    /\ last.purchase.tokens > 0
    /\ native_sent(last.msgs) = last.purchase.tokens
    /\ daily_stats.tokens_sold_today = last.purchase.tokens
    /\ config.total_tokens_sold > daily_stats.tokens_sold_today
    /\ config.total_tokens_sold = sent_to_payers

\* The operations that are no settlement: the administrator's, the two on
\* payment tokens, and the queries.
NoSettlementOps ==
    AdminGated
    \cup { "add_payment_token", "remove_payment_token", "query_config",
           "query_daily_stats", "query_pricing_info", "query_calculate_tokens" }

\* C36: the stored day, usd_received_today and tokens_sold_today, and
\* cumulative tokens sold, change in a successful settlement only: every
\* other step, a call of pause, resume, update_daily_limit,
\* update_pricing_config, withdraw_native_tokens, emergency_withdraw,
\* add_payment_token, remove_payment_token or a query, successful or not,
\* and a settlement that fails, leaves all four as they were.
C36_OnlySettlementChangesStats ==
    [][ (last'.op \in NoSettlementOps \/ ~Settled)
        => /\ daily_stats' = daily_stats
           /\ config'.total_tokens_sold = config.total_tokens_sold ]_vars

\* C36 witness: the administrator's update of the daily limit has succeeded
\* on a day with sales, on which a query follows.
C36_Witness ==
    /\ last.op = "query_daily_stats"
    /\ limit_changed_this_day
    /\ daily_stats.current_day = day_of(block_time)
    /\ daily_stats.tokens_sold_today > 0
    /\ daily_stats.usd_received_today > 0
    /\ config.total_tokens_sold > 0

\* A request of update_pricing_config supplies a zero.
SuppliesZero(u) == u[1] = 0 \/ u[2] = 0 \/ u[3] = 0

\* The pricing configuration pc with the parameters supplied by u replaced.
Supplied(u, pc) ==
    [ base_price_usd |-> IF u[1] = None THEN pc.base_price_usd ELSE u[1],
      tokens_per_tier |-> IF u[2] = None THEN pc.tokens_per_tier ELSE u[2],
      tier_multiplier |-> IF u[3] = None THEN pc.tier_multiplier ELSE u[3] ]

\* The step is a call of update_pricing_config.
UpdatePricingStep ==
    /\ last'.op = "update_pricing_config"
    /\ block_time' = block_time
    /\ contract_balance' = contract_balance

\* C37: update_pricing_config with a zero among the supplied parameters
\* fails with ZeroAmount or InvalidExchangeRate (Unauthorized for another
\* caller) and leaves every stored parameter as it was, those supplied
\* before the zero included; with no zero supplied the administrator's call
\* succeeds and replaces the supplied parameters and no other.  A failed
\* call saves nothing, a successful one saves the pricing configuration only.
C37_UpdatePricingAllOrNothing ==
    [][ UpdatePricingStep
        => /\ last'.err # "ok" => Untouched
           /\ last'.err = "ok"
              => /\ config' = config /\ daily_stats' = daily_stats
                 /\ \E u \in PricingUpdates :
                        ~SuppliesZero(u) /\ pricing_config' = Supplied(u, pricing_config)
           /\ \A sender \in Senders, u \in PricingUpdates :
                  LET out == update_pricing_config(sender, u[1], u[2], u[3])
                  IN  /\ SuppliesZero(u)
                         => /\ out.err \in {"Unauthorized", "ZeroAmount",
                                            "InvalidExchangeRate"}
                            /\ is_admin(config, sender) => out.err # "Unauthorized"
                            /\ out.pricing_config = pricing_config
                      /\ (~SuppliesZero(u) /\ is_admin(config, sender))
                         => out.err = "ok"
                      /\ out.err = "ok"
                         => out.pricing_config = Supplied(u, pricing_config) ]_vars

\* C37 witness: the administrator's request with a new base price, a new
\* tier size and a multiplier of zero was refused, and the base price and
\* the tier size are still those of initialization.
C37_Witness ==
    /\ last.op = "update_pricing_config"
    /\ last.sender = config.admin
    /\ last.err = "InvalidExchangeRate"
    /\ pricing_config \in InitPricing

\* C37: a request that omits the base price has succeeded.
C37_OmittedKept ==
    /\ last.op = "update_pricing_config"
    /\ last.err = "ok"
    /\ pricing_config.base_price_usd = 25
    /\ pricing_config.tokens_per_tier = 43

\* C38: no step changes config.admin; and in a sale initialized with no
\* administrator the paused flag is false in every state, daily_limit_bp
\* and the three pricing parameters stay what instantiate stored, and
\* nothing but a successful settlement changes what is stored.
C38_AdminFixed ==
    /\ config.admin = "" => ~config.is_paused
    /\ [][ /\ config'.admin = config.admin
           /\ config.admin = ""
              => /\ ~config'.is_paused
                 /\ config'.daily_limit_bp = config.daily_limit_bp
                 /\ pricing_config' = pricing_config
                 /\ ~Settled => Untouched ]_vars

\* C38 witness: in a sale with no administrator a caller's request to pause
\* was refused after a settlement had succeeded.
C38_Witness ==
    /\ config.admin = ""
    /\ last.op = "pause"
    /\ last.err = "Unauthorized"
    /\ config.total_tokens_sold > 0
    /\ ~config.is_paused

\* The tier and the price after the step.
TierThen ==
    calculate_current_tier(config'.total_tokens_sold, pricing_config'.tokens_per_tier)

PriceThen ==
    calculate_current_price(pricing_config'.base_price_usd, TierThen,
                            pricing_config'.tier_multiplier)

\* C39: query_pricing_info answers with the tier and the price of cumulative
\* tokens sold, next_tier_at = tokens_per_tier * (current_tier + 1) and
\* next_tier_price = the price of tier current_tier + 1; and a settlement
\* that, pricing unchanged, brings cumulative tokens sold to the reported
\* next_tier_at or beyond, and not to the threshold after it, brings the
\* sale to tier current_tier + 1 at the reported next_tier_price.
C39_NextTierReported ==
    [][ /\ QueryStep("query_pricing_info")
           => /\ ~last'.query.response.aborted
              /\ last'.query.response = PricingReport
              /\ PricingReport.current_tier = TierNow
              /\ PricingReport.current_price_usd = PriceNow
              /\ PricingReport.next_tier_at =
                     pricing_config.tokens_per_tier * (TierNow + 1)
              /\ PricingReport.next_tier_price =
                     calculate_current_price(pricing_config.base_price_usd,
                                             TierNow + 1,
                                             pricing_config.tier_multiplier)
        /\ (/\ Settled
            /\ pricing_config' = pricing_config
            /\ config'.total_tokens_sold >= PricingReport.next_tier_at
            /\ config'.total_tokens_sold
                   < PricingReport.next_tier_at + pricing_config.tokens_per_tier)
           => /\ TierThen = PricingReport.current_tier + 1
              /\ PriceThen = PricingReport.next_tier_price ]_vars

====
